---- MODULE Spec2Model ----
(***************************************************************************)
(* A model of the lsbasi interpreter front-end: the lexer, the recursive   *)
(* descent parser and the tree-walking evaluator (ExpressionCalculator).   *)
(* The model follows the later revision under src/src; the earlier         *)
(* revision under src/ is named where it differs.                          *)
(*                                                                         *)
(* A std::string is a sequence of one-character strings.  An int is an     *)
(* IntBits-wide two's complement integer.                                  *)
(***************************************************************************)
EXTENDS Integers, Sequences, FiniteSets, TLC

VARIABLES
    m_scope,   \* ExpressionCalculator::m_scope, std::map<std::string, int>
    m_acc,     \* ExpressionCalculator::m_acc
    status,    \* how the running (or last) top-level Accept stands
    stack,     \* the active Visit(CompoundNode) loops, innermost last
    root,      \* the tree most recently handed to the evaluator
    mText,     \* Lexer::mText
    mPos,      \* Lexer::mPos
    mCurrentToken,  \* Parser::mCurrentToken
    tokens,    \* the tokens Lexer::Advance returned to a caller that is no parser
    called,    \* the method of the parser or the lexer that was called, or
               \* the class constructed
    pstatus,   \* "ready", or how the call ended: "returned" or the exception
    ast,       \* the tree the call returned
    expected,  \* the kind the latest EatAndAdvance was called with
    what,      \* what() of the exception that left the call
    translator,   \* the class of the translator constructed, or "none"
    t_acc,        \* its m_acc, a std::string
    tstatus,      \* "ready", or how Translate ended: "returned" or the exception
    translation,  \* the string Translate returned
    tree          \* the tree Translate was called with

evalVars == <<m_scope, m_acc, status, stack, root>>

parserVars == <<mText, mPos, mCurrentToken, tokens, called, pstatus, ast, expected, what>>

translatorVars == <<translator, t_acc, tstatus, translation, tree>>

vars == <<m_scope, m_acc, status, stack, root,
          mText, mPos, mCurrentToken, tokens, called, pstatus, ast, expected, what,
          translator, t_acc, tstatus, translation, tree>>

----------------------------------------------------------------------------
(* Bounds of the model *)

\* width of the modelled int in bits (the program's int is wider)
IntBits == 4

\* longest child list of a CompoundNode in the evaluator's tree pool
MaxChildren == 2

\* most words of a text of any words
MaxRawWords == 3

\* most binary operators of a text that is an expression
MaxOps == 2

\* most semicolons between the statements of a text that is a statement list
MaxSemis == 2

\* largest number of the trees handed to a translator
MaxLiteral == 4

\* most calls of Advance that return EndOfFile
MaxAdvancesAtEnd == 3

\* pieces of a text that is read to its end
MaxTerminateWords == 2

----------------------------------------------------------------------------
(* Characters and strings *)

\* std::tolower on the "C" locale, as boost::algorithm::to_lower_copy applies it
LowerOf ==
    [A |-> "a", B |-> "b", C |-> "c", D |-> "d", E |-> "e", F |-> "f", G |-> "g",
     H |-> "h", I |-> "i", J |-> "j", K |-> "k", L |-> "l", M |-> "m", N |-> "n",
     O |-> "o", P |-> "p", Q |-> "q", R |-> "r", S |-> "s", T |-> "t", U |-> "u",
     V |-> "v", W |-> "w", X |-> "x", Y |-> "y", Z |-> "z"]

ToLowerChar(c) == IF c \in DOMAIN LowerOf THEN LowerOf[c] ELSE c

to_lower_copy(s) == [i \in 1..Len(s) |-> ToLowerChar(s[i])]

\* the characters of identifiers in the order of their codes
CharOrder ==
    <<"0", "1", "2", "3", "4", "5", "6", "7", "8", "9",
      "A", "B", "C", "D", "E", "F", "G", "H", "I", "J", "K", "L", "M",
      "N", "O", "P", "Q", "R", "S", "T", "U", "V", "W", "X", "Y", "Z",
      "_",
      "a", "b", "c", "d", "e", "f", "g", "h", "i", "j", "k", "l", "m",
      "n", "o", "p", "q", "r", "s", "t", "u", "v", "w", "x", "y", "z">>

CharCode(c) == CHOOSE i \in 1..Len(CharOrder) : CharOrder[i] = c

\* std::string's operator<, the order of the keys of m_scope
RECURSIVE StringLess(_, _)
StringLess(s, t) ==
    IF t = <<>> THEN FALSE
    ELSE IF s = <<>> THEN TRUE
    ELSE IF Head(s) = Head(t) THEN StringLess(Tail(s), Tail(t))
    ELSE CharCode(Head(s)) < CharCode(Head(t))

----------------------------------------------------------------------------
(* int arithmetic *)

IntMin == -(2 ^ (IntBits - 1))
IntMax == (2 ^ (IntBits - 1)) - 1
IntRange == IntMin..IntMax

\* the value an int holds after +, -, * or unary - left its range
Wrap(n) == ((n - IntMin) % (2 ^ IntBits)) + IntMin

Abs(n) == IF n < 0 THEN -n ELSE n

\* the int operator / on operands whose quotient is defined
Quotient(a, b) ==
    IF (a < 0) = (b < 0) THEN Abs(a) \div Abs(b) ELSE -(Abs(a) \div Abs(b))

\* a / b has no defined result: b is zero, or the quotient is not an int
DivUndefined(a, b) == b = 0 \/ (a = IntMin /\ b = -1)

\* What a build makes of an undefined a / b: the divide instruction traps and
\* the process dies, or yields the machine's quotient (0 for a zero divisor,
\* the dividend for IntMin / -1).
DivUndefinedOutcomes(a, b) ==
    {[st |-> "trap", val |-> 0],
     [st |-> "ok", val |-> IF b = 0 THEN 0 ELSE a]}

----------------------------------------------------------------------------
(* AST nodes (src/src/AST.h).  Every node is a record of one shape; a field *)
(* a node class does not have holds an empty value.                        *)

BinOpOperators == {"Plus", "Minus", "Mul", "Div"}
UnOpOperators == {"Plus", "Minus"}

NoName == <<>>

BinOpNode(left, right, op) ==
    [kind |-> "BinOp", op |-> op, name |-> NoName, value |-> 0, kids |-> <<left, right>>]

UnOpNode(expression, op) ==
    [kind |-> "UnOp", op |-> op, name |-> NoName, value |-> 0, kids |-> <<expression>>]

LeafNumNode(value) ==
    [kind |-> "LeafNum", op |-> "", name |-> NoName, value |-> value, kids |-> <<>>]

\* LeafNumNode(value, false) as the parser builds it of a real constant,
\* value the number mant / 10^scale
LeafRealNode(value) ==
    [kind |-> "LeafNum", op |-> "", name |-> NoName, value |-> value.mant, kids |-> <<>>,
     scale |-> value.scale, isInteger |-> FALSE]

LeafVarNode(name) ==
    [kind |-> "LeafVar", op |-> "", name |-> name, value |-> 0, kids |-> <<>>]

LeafNopNode ==
    [kind |-> "LeafNop", op |-> "", name |-> NoName, value |-> 0, kids |-> <<>>]

AssignNode(left, right) ==
    [kind |-> "Assign", op |-> "", name |-> left, value |-> 0, kids |-> <<right>>]

\* a CompoundNode after AddChild of each element of children, in order
CompoundNode(children) ==
    [kind |-> "Compound", op |-> "", name |-> NoName, value |-> 0, kids |-> children]

AddChild(compound, node) == [compound EXCEPT !.kids = Append(@, node)]

GetCount(compound) == Len(compound.kids)

\* the children counted from the last
GetChildFromEnd(compound, index) == compound.kids[Len(compound.kids) - index]

\* GetChild(index), index counted from zero
GetChild(compound, index) == compound.kids[index + 1]

\* a std::vector of nodes, elements in order; AddChild stands for push_back
Vector(elements) ==
    [kind |-> "vector", op |-> "", name |-> NoName, value |-> 0, kids |-> elements]

\* TypeNode(type), type one of TypeNode::Integer, TypeNode::Real
TypeNode(type) ==
    [kind |-> "Type", op |-> type, name |-> NoName, value |-> 0, kids |-> <<>>]

\* VarDeclNode as the parser builds it: of the variables declared and a type
VarDeclNode(variables, type) ==
    [kind |-> "VarDecl", op |-> "", name |-> NoName, value |-> 0, kids |-> variables,
     type |-> type]

BlockNode(declarations, compound) ==
    [kind |-> "Block", op |-> "", name |-> NoName, value |-> 0, kids |-> <<compound>>,
     declarations |-> declarations]

ProgramNode(name, block) ==
    [kind |-> "Program", op |-> "", name |-> name, value |-> 0, kids |-> <<block>>]

\* no tree: a null ASTNode::Ptr
NoRoot == [kind |-> "None", op |-> "", name |-> NoName, value |-> 0, kids |-> <<>>]

----------------------------------------------------------------------------
(* The lexer (src/src/Lexer.cpp).  mPos counts the characters read, so the  *)
(* character mText[mPos] of the source is text[pos + 1] here.              *)

Digits == {"0", "1", "2", "3", "4", "5", "6", "7", "8", "9"}

UpperLetters == DOMAIN LowerOf

LowerLetters == {LowerOf[c] : c \in UpperLetters}

\* std::isspace, std::isdigit, and std::isalpha on the "C" locale
\* (the vertical tab, which has no escape here, is left out of isspace)
Spaces == {" ", "\t", "\n", "\f", "\r"}

isspace(c) == c \in Spaces

isdigit(c) == c \in Digits

isalpha(c) == c \in UpperLetters \cup LowerLetters

\* the characters ReadAsKeywordOrIdentifier gathers: std::isalnum or '_'
WordChars == UpperLetters \cup LowerLetters \cup Digits \cup {"_"}

\* struct Token: value is a std::optional, empty where has is FALSE
Token(type) == [type |-> type, has |-> FALSE, value |-> <<>>]

TokenWithValue(type, value) == [type |-> type, has |-> TRUE, value |-> value]

\* what mCurrentToken holds before the parser is constructed
NoToken == Token("None")

\* enum class TokenType
TokenType ==
    {"Program", "Var", "Begin", "End", "Integer", "Real", "IntegerDiv",
     "Identifier", "IntegerConstant", "RealConstant",
     "Dot", "Assign", "Semicolon", "LeftParen", "RightParen", "Colon", "Comma",
     "Plus", "Minus", "Mul", "FloatDiv",
     "EndOfFile"}

\* the names of the token types: the name of IntegerDiv is Div
TOKEN_KIND_MAP == [type \in TokenType |-> IF type = "IntegerDiv" THEN "Div" ELSE type]

\* ToString(TokenType)
TokenTypeToString(type) == TOKEN_KIND_MAP[type]

\* what() of an exception thrown without a message modelled
NoWhat == <<>>

\* the keys are the keywords in lower case, character by character
RESERVED_KEYWORDS ==
    (<<"b", "e", "g", "i", "n">> :> "Begin")
    @@ (<<"e", "n", "d">> :> "End")
    @@ (<<"d", "i", "v">> :> "IntegerDiv")
    @@ (<<"p", "r", "o", "g", "r", "a", "m">> :> "Program")
    @@ (<<"v", "a", "r">> :> "Var")
    @@ (<<"i", "n", "t", "e", "g", "e", "r">> :> "Integer")
    @@ (<<"r", "e", "a", "l">> :> "Real")

\* the position a loop of ++mPos or chars += mText[mPos++] stops at: the
\* first one from pos on that is the end of the text or holds no character
\* of class
RECURSIVE ScanWhile(_, _, _)
ScanWhile(class, text, pos) ==
    IF pos < Len(text) /\ text[pos + 1] \in class
    THEN ScanWhile(class, text, pos + 1)
    ELSE pos

\* the same for the loop of SkipComment, which stops at the closing brace
RECURSIVE ScanToBrace(_, _)
ScanToBrace(text, pos) ==
    IF pos < Len(text) /\ text[pos + 1] # "}"
    THEN ScanToBrace(text, pos + 1)
    ELSE pos

\* mText.substr(from, to - from), the chars a reading loop gathered
Chars(text, from, to) == SubSeq(text, from + 1, to)

SkipWhitespaces(text, pos) == ScanWhile(Spaces, text, pos)

\* a SkipComment that steps over a closing brace it has not looked for
SkipCommentPastEnd(text, pos) == ScanToBrace(text, pos) + 1

SkipComment(text, pos) ==
    LET close == ScanToBrace(text, pos)
    IN  IF close < Len(text) THEN close + 1 ELSE close

ReadAsNumberConstant(text, pos) ==
    LET dot == ScanWhile(Digits, text, pos)
    IN  IF dot < Len(text) /\ text[dot + 1] = "."
        THEN LET stop == ScanWhile(Digits, text, dot + 1)
             IN  [st |-> "ok", pos |-> stop,
                  tok |-> TokenWithValue("RealConstant", Chars(text, pos, stop))]
        ELSE [st |-> "ok", pos |-> dot,
              tok |-> TokenWithValue("IntegerConstant", Chars(text, pos, dot))]

\* a lookup of the characters as written
ReadAsKeywordOrIdentifierCaseSensitive(text, pos) ==
    LET stop == ScanWhile(WordChars, text, pos)
        chars == Chars(text, pos, stop)
    IN  IF chars \in DOMAIN RESERVED_KEYWORDS
        THEN [st |-> "ok", pos |-> stop, tok |-> Token(RESERVED_KEYWORDS[chars])]
        ELSE [st |-> "ok", pos |-> stop, tok |-> TokenWithValue("Identifier", chars)]

ReadAsKeywordOrIdentifier(text, pos) ==
    LET stop == ScanWhile(WordChars, text, pos)
        chars == Chars(text, pos, stop)
        it == to_lower_copy(chars)
    IN  IF it \in DOMAIN RESERVED_KEYWORDS
        THEN [st |-> "ok", pos |-> stop, tok |-> Token(RESERVED_KEYWORDS[it])]
        ELSE [st |-> "ok", pos |-> stop, tok |-> TokenWithValue("Identifier", chars)]

\* the tokens of one character
Punctuation ==
    [c \in {"+", "-", "*", "/", "(", ")", ";", ".", ","} |->
        CASE c = "+" -> "Plus"
          [] c = "-" -> "Minus"
          [] c = "*" -> "Mul"
          [] c = "/" -> "FloatDiv"
          [] c = "(" -> "LeftParen"
          [] c = ")" -> "RightParen"
          [] c = ";" -> "Semicolon"
          [] c = "." -> "Dot"
          [] c = "," -> "Comma"]

\* Lexer::Advance from mPos = pos: the token returned and the mPos left, or
\* std::invalid_argument with mPos at the character that starts no token
\* an end of the text that moves mPos on
AtEndOfTextMoves(text, pos) == [st |-> "ok", pos |-> pos + 1, tok |-> Token("EndOfFile")]

\* Advance when mPos < mText.length() fails: the loop is not entered
AtEndOfText(text, pos) == [st |-> "ok", pos |-> pos, tok |-> Token("EndOfFile")]

RECURSIVE Advance(_, _)
Advance(text, pos) ==
    IF pos >= Len(text)
    THEN AtEndOfText(text, pos)
    ELSE LET c == text[pos + 1]
         IN  IF isspace(c) THEN Advance(text, SkipWhitespaces(text, pos))
             ELSE IF c = "{" THEN Advance(text, SkipComment(text, pos))
             ELSE IF isdigit(c) THEN ReadAsNumberConstant(text, pos)
             ELSE IF isalpha(c) \/ c = "_" THEN ReadAsKeywordOrIdentifier(text, pos)
             ELSE IF c \in DOMAIN Punctuation
                  THEN [st |-> "ok", pos |-> pos + 1, tok |-> Token(Punctuation[c])]
             ELSE IF c = ":"
                  THEN IF pos + 1 < Len(text) /\ text[pos + 2] = "="
                       THEN [st |-> "ok", pos |-> pos + 2, tok |-> Token("Assign")]
                       ELSE [st |-> "ok", pos |-> pos + 1, tok |-> Token("Colon")]
             ELSE [st |-> "invalid_argument", pos |-> pos, tok |-> NoToken,
                   what |-> <<"can't parse character at pos ", pos, c>>]

\* the results of calling Advance over and over from pos, up to EndOfFile or
\* up to the character that starts no token
RECURSIVE Advances(_, _)
Advances(text, pos) ==
    LET a == Advance(text, pos)
    IN  IF a.st # "ok" THEN <<>>
        ELSE IF a.tok.type = "EndOfFile" THEN <<a>>
        ELSE <<a>> \o Advances(text, a.pos)

\* Tokenize (src/src/main.cpp): the tokens up to EndOfFile, or the exception
Tokenize(text) ==
    LET as == Advances(text, 0)
    IN  IF as # <<>> /\ as[Len(as)].tok.type = "EndOfFile"
        THEN [st |-> "ok", tokens |-> [i \in 1..Len(as) |-> as[i].tok]]
        ELSE [st |-> "invalid_argument", tokens |-> <<>>]

----------------------------------------------------------------------------
(* The parser (src/src/main.cpp).  A parsing method reads and writes        *)
(* mCurrentToken and the lexer's mPos: here it takes them as the record p  *)
(* and yields the record of what it left: st "ok" and the node it returns, *)
(* or st the exception thrown out of it and node NoRoot.                   *)

\* the operators the parser names for a BinOpNode
ParserBinOpOperators == {"Plus", "Minus", "Mul", "IntegerDiv", "FloatDiv"}

Threw(r, st) == [st |-> st, pos |-> r.pos, tok |-> r.tok, node |-> NoRoot]

\* throw std::runtime_error(what)
ThrewRuntimeError(r, message) ==
    [st |-> "runtime_error", pos |-> r.pos, tok |-> r.tok, node |-> NoRoot, what |-> message]

\* what() of the exception that left a call, of a result r that is one
WhatOf(r) == IF "what" \in DOMAIN r THEN r.what ELSE NoWhat

Returns(r, node) == [st |-> "ok", pos |-> r.pos, tok |-> r.tok, node |-> node]

DigitValue(c) == CharCode(c) - 1

\* the number the decimal digits chars write
RECURSIVE DecimalValue(_)
DecimalValue(chars) ==
    IF chars = <<>> THEN 0
    ELSE 10 * DecimalValue(SubSeq(chars, 1, Len(chars) - 1)) + DigitValue(chars[Len(chars)])

\* std::stoi of a lexeme of digits: std::out_of_range above the largest int
stoi(lexeme) ==
    LET n == DecimalValue(lexeme)
    IN  IF n > IntMax THEN [st |-> "out_of_range", value |-> 0]
        ELSE [st |-> "ok", value |-> n]

\* std::stod of a lexeme digits '.' digits: the number is mant / 10^scale,
\* written without the zeros that end its fraction
stod(lexeme) ==
    LET dot == CHOOSE i \in 1..Len(lexeme) : lexeme[i] = "."
        last == IF \E i \in (dot + 1)..Len(lexeme) : lexeme[i] # "0"
                THEN CHOOSE i \in (dot + 1)..Len(lexeme) :
                         /\ lexeme[i] # "0"
                         /\ \A j \in (i + 1)..Len(lexeme) : lexeme[j] = "0"
                ELSE dot
    IN  [mant |-> DecimalValue(SubSeq(lexeme, 1, dot - 1) \o SubSeq(lexeme, dot + 1, last)),
         scale |-> last - dot]

\* Invoke(method, text, p) is the method of that name, of the parser or of
\* its lexer, called where p says; the methods call one another through it
RECURSIVE Invoke(_, _, _)

\* an EatAndAdvance that takes the next token whatever the lookahead is
EatAndAdvanceUnchecked(text, p, kind) ==
    LET a == Invoke("Advance", text, p)
    IN  IF a.st = "ok"
        THEN [st |-> "ok", pos |-> a.pos, tok |-> a.tok, node |-> NoRoot]
        ELSE [st |-> a.st, pos |-> a.pos, tok |-> p.tok, node |-> NoRoot,
              what |-> WhatOf(a)]

EatAndAdvance(text, p, kind) ==
    IF p.tok.type = kind
    THEN LET a == Invoke("Advance", text, p)
         IN  IF a.st = "ok"
             THEN [st |-> "ok", pos |-> a.pos, tok |-> a.tok, node |-> NoRoot]
             ELSE [st |-> a.st, pos |-> a.pos, tok |-> p.tok, node |-> NoRoot,
                   what |-> WhatOf(a)]
    ELSE ThrewRuntimeError(p, <<"can't parse as ", TokenTypeToString(kind)>>)

ParseAsVariable(text, p) ==
    IF p.tok.type # "Identifier" THEN Threw(p, "assert")
    ELSE LET identifier == p.tok.value
             e == EatAndAdvance(text, p, "Identifier")
         IN  IF e.st # "ok" THEN e ELSE Returns(e, LeafVarNode(identifier))

ParseAsTerm(text, p) ==
    LET node == Invoke("ParseAsFactor", text, p)
    IN  IF node.st # "ok" THEN node ELSE Invoke("ParseAsTermLoop", text, node)

ParseAsExpr(text, p) ==
    LET node == Invoke("ParseAsTerm", text, p)
    IN  IF node.st # "ok" THEN node ELSE Invoke("ParseAsExprLoop", text, node)

\* a unary plus that adds no node to the tree
ParseAsUnaryDropsPlus(text, p, op) ==
    LET e == EatAndAdvance(text, p, op)
    IN  IF e.st # "ok" THEN e
        ELSE LET node == Invoke("ParseAsFactor", text, e)
             IN  IF node.st # "ok" \/ op = "Plus" THEN node
                 ELSE Returns(node, UnOpNode(node.node, op))

\* the unary operator of ParseAsFactor: the sign is eaten, a factor parsed
\* and wrapped
ParseAsUnary(text, p, op) ==
    LET e == EatAndAdvance(text, p, op)
    IN  IF e.st # "ok" THEN e
        ELSE LET node == Invoke("ParseAsFactor", text, e)
             IN  IF node.st # "ok" THEN node
                 ELSE Returns(node, UnOpNode(node.node, op))

ParseAsFactor(text, p) ==
    CASE p.tok.type = "Minus" -> ParseAsUnary(text, p, "Minus")
      [] p.tok.type = "Plus" -> ParseAsUnary(text, p, "Plus")
      [] p.tok.type = "IntegerConstant" ->
            LET lexeme == p.tok.value
                e == EatAndAdvance(text, p, "IntegerConstant")
                value == stoi(lexeme)
            IN  IF e.st # "ok" THEN e
                ELSE IF value.st # "ok" THEN Threw(e, value.st)
                ELSE Returns(e, LeafNumNode(value.value))
      [] p.tok.type = "RealConstant" ->
            LET lexeme == p.tok.value
                e == EatAndAdvance(text, p, "RealConstant")
            IN  IF e.st # "ok" THEN e
                ELSE Returns(e, LeafRealNode(stod(lexeme)))
      [] p.tok.type = "LeftParen" ->
            LET e == EatAndAdvance(text, p, "LeftParen")
            IN  IF e.st # "ok" THEN e
                ELSE LET node == Invoke("ParseAsExpr", text, e)
                     IN  IF node.st # "ok" THEN node
                         ELSE LET close == EatAndAdvance(text, node, "RightParen")
                              IN  IF close.st # "ok" THEN close
                                  ELSE Returns(close, node.node)
      [] p.tok.type = "Identifier" -> Invoke("ParseAsVariable", text, p)
      [] OTHER -> ThrewRuntimeError(p, <<"can't parse as factor">>)

\* the while loop of ParseAsTerm with node the tree built so far
ParseAsTermLoop(text, node) ==
    IF node.tok.type \notin {"Mul", "IntegerDiv", "FloatDiv"} THEN node
    ELSE LET op == node.tok
             e == EatAndAdvance(text, node, op.type)
         IN  IF e.st # "ok" THEN e
             ELSE LET right == Invoke("ParseAsFactor", text, e)
                  IN  IF right.st # "ok" THEN right
                      ELSE Invoke("ParseAsTermLoop", text,
                               Returns(right, BinOpNode(node.node, right.node,
                                   IF op.type = "Mul" THEN "Mul"
                                   ELSE IF op.type = "IntegerDiv" THEN "IntegerDiv"
                                   ELSE "FloatDiv")))

\* a loop that takes all that follows the operator as its right operand
ParseAsExprLoopRightAssociative(text, node) ==
    IF node.tok.type \notin {"Plus", "Minus"} THEN node
    ELSE LET op == node.tok
             e == EatAndAdvance(text, node, op.type)
         IN  IF e.st # "ok" THEN e
             ELSE LET right == Invoke("ParseAsExpr", text, e)
                  IN  IF right.st # "ok" THEN right
                      ELSE Returns(right, BinOpNode(node.node, right.node,
                               IF op.type = "Plus" THEN "Plus" ELSE "Minus"))

\* the while loop of ParseAsExpr with node the tree built so far
ParseAsExprLoop(text, node) ==
    IF node.tok.type \notin {"Plus", "Minus"} THEN node
    ELSE LET op == node.tok
             e == EatAndAdvance(text, node, op.type)
         IN  IF e.st # "ok" THEN e
             ELSE LET right == Invoke("ParseAsTerm", text, e)
                  IN  IF right.st # "ok" THEN right
                      ELSE Invoke("ParseAsExprLoop", text,
                               Returns(right, BinOpNode(node.node, right.node,
                                   IF op.type = "Plus" THEN "Plus" ELSE "Minus")))

ParseAsAssignment(text, p) ==
    LET left == Invoke("ParseAsVariable", text, p)
    IN  IF left.st # "ok" THEN left
        ELSE LET e == EatAndAdvance(text, left, "Assign")
             IN  IF e.st # "ok" THEN e
                 ELSE LET expr == Invoke("ParseAsExpr", text, e)
                      IN  IF expr.st # "ok" THEN expr
                          ELSE Returns(expr, AssignNode(left.node.name, expr.node))

ParseAsStatementList(text, p) ==
    LET first == Invoke("ParseAsStatement", text, p)
    IN  IF first.st # "ok" THEN first
        ELSE Invoke("ParseAsStatementListLoop", text, Returns(first, AddChild(CompoundNode(<<>>), first.node)))

ParseAsCompound(text, p) ==
    LET e == EatAndAdvance(text, p, "Begin")
    IN  IF e.st # "ok" THEN e
        ELSE LET node == Invoke("ParseAsStatementList", text, e)
             IN  IF node.st # "ok" THEN node
                 ELSE LET close == EatAndAdvance(text, node, "End")
                      IN  IF close.st # "ok" THEN close
                          ELSE Returns(close, node.node)

ParseAsStatement(text, p) ==
    IF p.tok.type = "Begin" THEN Invoke("ParseAsCompound", text, p)
    ELSE IF p.tok.type = "Identifier" THEN Invoke("ParseAsAssignment", text, p)
    ELSE Returns(p, LeafNopNode)

\* a loop that adds no child for an empty statement
ParseAsStatementListLoopSkipsEmpty(text, node) ==
    IF node.tok.type # "Semicolon" THEN node
    ELSE LET e == EatAndAdvance(text, node, "Semicolon")
         IN  IF e.st # "ok" THEN e
             ELSE LET child == Invoke("ParseAsStatement", text, e)
                  IN  IF child.st # "ok" THEN child
                      ELSE Invoke("ParseAsStatementListLoop", text,
                               Returns(child, IF child.node = LeafNopNode THEN node.node
                                              ELSE AddChild(node.node, child.node)))

\* the while loop of ParseAsStatementList with node the list built so far
ParseAsStatementListLoop(text, node) ==
    IF node.tok.type # "Semicolon" THEN node
    ELSE LET e == EatAndAdvance(text, node, "Semicolon")
         IN  IF e.st # "ok" THEN e
             ELSE LET child == Invoke("ParseAsStatement", text, e)
                  IN  IF child.st # "ok" THEN child
                      ELSE Invoke("ParseAsStatementListLoop", text,
                               Returns(child, AddChild(node.node, child.node)))

ParseAsTypeNode(text, p) ==
    IF p.tok.type = "Integer"
    THEN LET e == EatAndAdvance(text, p, "Integer")
         IN  IF e.st # "ok" THEN e ELSE Returns(e, TypeNode("Integer"))
    ELSE IF p.tok.type = "Real"
    THEN LET e == EatAndAdvance(text, p, "Real")
         IN  IF e.st # "ok" THEN e ELSE Returns(e, TypeNode("Real"))
    ELSE ThrewRuntimeError(p, <<"invalid variable type">>)

\* the while loop of ParseAsVariablesDeclaration with node the vector vars
ParseAsVariablesDeclarationLoop(text, node) ==
    IF node.tok.type # "Comma" THEN node
    ELSE LET e == EatAndAdvance(text, node, "Comma")
         IN  IF e.st # "ok" THEN e
             ELSE LET var == Invoke("ParseAsVariable", text, e)
                  IN  IF var.st # "ok" THEN var
                      ELSE Invoke("ParseAsVariablesDeclarationLoop", text,
                               Returns(var, AddChild(node.node, var.node)))

ParseAsVariablesDeclaration(text, p) ==
    LET first == Invoke("ParseAsVariable", text, p)
    IN  IF first.st # "ok" THEN first
        ELSE LET variables == Invoke("ParseAsVariablesDeclarationLoop", text,
                             Returns(first, AddChild(Vector(<<>>), first.node)))
             IN  IF variables.st # "ok" THEN variables
                 ELSE LET e == EatAndAdvance(text, variables, "Colon")
                      IN  IF e.st # "ok" THEN e
                          ELSE LET type == Invoke("ParseAsTypeNode", text, e)
                               IN  IF type.st # "ok" THEN type
                                   ELSE Returns(type, VarDeclNode(variables.node.kids, type.node))

\* the while loop of ParseAsDeclarations with node the vector declarations
ParseAsDeclarationsLoop(text, node) ==
    IF node.tok.type # "Identifier" THEN node
    ELSE LET decl == Invoke("ParseAsVariablesDeclaration", text, node)
         IN  IF decl.st # "ok" THEN decl
             ELSE LET e == EatAndAdvance(text, decl, "Semicolon")
                  IN  IF e.st # "ok" THEN e
                      ELSE Invoke("ParseAsDeclarationsLoop", text,
                               Returns(e, AddChild(node.node, decl.node)))

ParseAsDeclarations(text, p) ==
    IF p.tok.type = "Var"
    THEN LET e == EatAndAdvance(text, p, "Var")
         IN  IF e.st # "ok" THEN e
             ELSE Invoke("ParseAsDeclarationsLoop", text, Returns(e, Vector(<<>>)))
    ELSE Returns(p, Vector(<<>>))

ParseAsBlock(text, p) ==
    LET declarations == Invoke("ParseAsDeclarations", text, p)
    IN  IF declarations.st # "ok" THEN declarations
        ELSE LET compound == Invoke("ParseAsCompound", text, declarations)
             IN  IF compound.st # "ok" THEN compound
                 ELSE Returns(compound, BlockNode(declarations.node.kids, compound.node))

ParseAsProgram(text, p) ==
    LET e1 == EatAndAdvance(text, p, "Program")
    IN  IF e1.st # "ok" THEN e1
        ELSE LET programNameToken == e1.tok
                 e2 == EatAndAdvance(text, e1, "Identifier")
             IN  IF e2.st # "ok" THEN e2
                 ELSE LET e3 == EatAndAdvance(text, e2, "Semicolon")
                      IN  IF e3.st # "ok" THEN e3
                          ELSE LET block == Invoke("ParseAsBlock", text, e3)
                               IN  IF block.st # "ok" THEN block
                                   ELSE LET e4 == EatAndAdvance(text, block, "Dot")
                                        IN  IF e4.st # "ok" THEN e4
                                            ELSE LET e5 == EatAndAdvance(text, e4, "EndOfFile")
                                                 IN  IF e5.st # "ok" THEN e5
                                                     ELSE Returns(e5,
                                                              ProgramNode(programNameToken.value,
                                                                          block.node))

Invoke(method, text, p) ==
    CASE method = "Advance" -> Advance(text, p.pos)
      [] method = "ParseAsTypeNode" -> ParseAsTypeNode(text, p)
      [] method = "ParseAsVariablesDeclarationLoop" -> ParseAsVariablesDeclarationLoop(text, p)
      [] method = "ParseAsVariablesDeclaration" -> ParseAsVariablesDeclaration(text, p)
      [] method = "ParseAsDeclarationsLoop" -> ParseAsDeclarationsLoop(text, p)
      [] method = "ParseAsDeclarations" -> ParseAsDeclarations(text, p)
      [] method = "ParseAsBlock" -> ParseAsBlock(text, p)
      [] method = "ParseAsProgram" -> ParseAsProgram(text, p)
      [] method = "ParseAsVariable" -> ParseAsVariable(text, p)
      [] method = "ParseAsFactor" -> ParseAsFactor(text, p)
      [] method = "ParseAsTermLoop" -> ParseAsTermLoop(text, p)
      [] method = "ParseAsTerm" -> ParseAsTerm(text, p)
      [] method = "ParseAsExprLoop" -> ParseAsExprLoop(text, p)
      [] method = "ParseAsExpr" -> ParseAsExpr(text, p)
      [] method = "ParseAsAssignment" -> ParseAsAssignment(text, p)
      [] method = "ParseAsStatementListLoop" -> ParseAsStatementListLoop(text, p)
      [] method = "ParseAsStatementList" -> ParseAsStatementList(text, p)
      [] method = "ParseAsStatement" -> ParseAsStatement(text, p)
      [] method = "ParseAsCompound" -> ParseAsCompound(text, p)

----------------------------------------------------------------------------
(* ExpressionCalculator (src/src/AST.h) *)

\* Calculate(left) op Calculate(right): the language leaves the order of the
\* two calls to the build.
EvalOrders == {"LR", "RL"}

\* std::find_if over m_scope with the case-insensitive predicate: the first
\* key, in the map's order, whose lower-cased form is varname
FindIf(scope, varname) ==
    LET matches == {k \in DOMAIN scope : to_lower_copy(k) = varname}
    IN  IF matches = {} THEN [end |-> TRUE, key |-> NoName]
        ELSE [end |-> FALSE,
              key |-> CHOOSE k \in matches :
                          \A j \in matches : j = k \/ StringLess(k, j)]

VisitLeafNumNode(num, acc) == {[acc |-> num.value, st |-> "ok"]}

\* a lookup that reads a missing variable as zero, as m_scope[name] would
VisitLeafVarNodeDefaultZero(var, scope, acc) ==
    LET it == FindIf(scope, to_lower_copy(var.name))
    IN  {[acc |-> IF it.end THEN 0 ELSE scope[it.key], st |-> "ok"]}

VisitLeafVarNode(var, scope, acc) ==
    LET varname == to_lower_copy(var.name)
        it == FindIf(scope, varname)
    IN  IF it.end
        THEN {[acc |-> acc, st |-> "runtime_error"]}
        ELSE {[acc |-> scope[it.key], st |-> "ok"]}

\* m_acc = l op r, with l and r the values the two Calculate calls returned
\* and acc the accumulator the later call left
ApplyBinOp(op, l, r, acc) ==
    CASE op = "Plus" -> {[acc |-> Wrap(l + r), st |-> "ok"]}
      [] op = "Minus" -> {[acc |-> Wrap(l - r), st |-> "ok"]}
      [] op = "Mul" -> {[acc |-> Wrap(l * r), st |-> "ok"]}
      [] op = "Div" ->
            IF DivUndefined(l, r)
            THEN {[acc |-> IF o.st = "ok" THEN o.val ELSE acc, st |-> o.st] :
                     o \in DivUndefinedOutcomes(l, r)}
            ELSE {[acc |-> Quotient(l, r), st |-> "ok"]}

ApplyUnOp(op, v) == IF op = "Minus" THEN Wrap(-v) ELSE v

\* Calculate(node): node.Accept(*this), then the accumulator.  The result is
\* the set of outcomes [acc, st]: st is "ok", or the exception that left the
\* call ("runtime_error", "logic_error"), or "trap".
RECURSIVE Calculate(_, _, _)

\* a visit that reads both operands from the accumulator once the two
\* Calculate calls are over
VisitBinOpNodeInOrderReadsAcc(binop, scope, acc, ord) ==
    LET lr == ord = "LR"
        first == IF lr THEN binop.kids[1] ELSE binop.kids[2]
        second == IF lr THEN binop.kids[2] ELSE binop.kids[1]
    IN  UNION {
          IF f.st # "ok" THEN {f}
          ELSE UNION {
                 IF s.st # "ok" THEN {s}
                 ELSE ApplyBinOp(binop.op, s.acc, s.acc, s.acc) :
                 s \in Calculate(second, scope, f.acc)} :
          f \in Calculate(first, scope, acc)}

\* the operands of binop evaluated in the order ord, then the operator
VisitBinOpNodeInOrder(binop, scope, acc, ord) ==
    LET lr == ord = "LR"
        first == IF lr THEN binop.kids[1] ELSE binop.kids[2]
        second == IF lr THEN binop.kids[2] ELSE binop.kids[1]
    IN  UNION {
          IF f.st # "ok" THEN {f}
          ELSE UNION {
                 IF s.st # "ok" THEN {s}
                 ELSE ApplyBinOp(binop.op,
                                 IF lr THEN f.acc ELSE s.acc,
                                 IF lr THEN s.acc ELSE f.acc,
                                 s.acc) :
                 s \in Calculate(second, scope, f.acc)} :
          f \in Calculate(first, scope, acc)}

VisitBinOpNode(binop, scope, acc) ==
    IF binop.op \notin BinOpOperators
    THEN {[acc |-> acc, st |-> "logic_error"]}
    ELSE UNION {VisitBinOpNodeInOrder(binop, scope, acc, ord) : ord \in EvalOrders}

VisitUnOpNode(unop, scope, acc) ==
    IF unop.op \notin UnOpOperators
    THEN {[acc |-> acc, st |-> "logic_error"]}
    ELSE {IF e.st # "ok" THEN e
          ELSE [acc |-> ApplyUnOp(unop.op, e.acc), st |-> "ok"] :
          e \in Calculate(unop.kids[1], scope, acc)}

Calculate(node, scope, acc) ==
    CASE node.kind = "LeafNum" -> VisitLeafNumNode(node, acc)
      [] node.kind = "LeafVar" -> VisitLeafVarNode(node, scope, acc)
      [] node.kind = "UnOp" -> VisitUnOpNode(node, scope, acc)
      [] node.kind = "BinOp" -> VisitBinOpNode(node, scope, acc)

\* an empty statement that clears the accumulator
VisitLeafNopNodeClearsAcc(nop, scope, acc) ==
    {[scope |-> scope, acc |-> 0, st |-> "ok"]}

\* A statement visit yields outcomes [scope, acc, st].
VisitLeafNopNode(nop, scope, acc) == {[scope |-> scope, acc |-> acc, st |-> "ok"]}

\* std::map::emplace(key, value): no effect when the key is present
Emplace(scope, key, value) ==
    IF key \in DOMAIN scope THEN scope
    ELSE [k \in DOMAIN scope \cup {key} |-> IF k = key THEN value ELSE scope[k]]

\* an assignment that compares the keys as written: m_scope[name] = value
VisitAssignNodeCaseSensitive(assign, scope, acc) ==
    {IF v.st # "ok"
     THEN [scope |-> scope, acc |-> v.acc, st |-> v.st]
     ELSE [scope |-> IF assign.name \in DOMAIN scope
                     THEN [scope EXCEPT ![assign.name] = v.acc]
                     ELSE Emplace(scope, assign.name, v.acc),
           acc |-> v.acc, st |-> "ok"] :
     v \in Calculate(assign.kids[1], scope, acc)}

\* an assignment that stores the variable under the spelling it has now
VisitAssignNodeRespells(assign, scope, acc) ==
    LET varname == to_lower_copy(assign.name)
        kept == {k \in DOMAIN scope : to_lower_copy(k) # varname}
    IN  {IF v.st # "ok"
         THEN [scope |-> scope, acc |-> v.acc, st |-> v.st]
         ELSE [scope |-> [k \in kept \cup {assign.name} |->
                             IF k = assign.name THEN v.acc ELSE scope[k]],
               acc |-> v.acc, st |-> "ok"] :
         v \in Calculate(assign.kids[1], scope, acc)}

VisitAssignNode(assign, scope, acc) ==
    LET varname == to_lower_copy(assign.name)
        it == FindIf(scope, varname)
    IN  {IF v.st # "ok"
         THEN [scope |-> scope, acc |-> v.acc, st |-> v.st]
         ELSE [scope |-> IF it.end
                         THEN Emplace(scope, assign.name, v.acc)
                         ELSE [scope EXCEPT ![it.key] = v.acc],
               acc |-> v.acc, st |-> "ok"] :
         v \in Calculate(assign.kids[1], scope, acc)}

\* node.Accept(*this) for a node that is no CompoundNode
AcceptLeaf(node, scope, acc) ==
    CASE node.kind = "LeafNop" -> VisitLeafNopNode(node, scope, acc)
      [] node.kind = "Assign" -> VisitAssignNode(node, scope, acc)
      [] OTHER -> {[scope |-> scope, acc |-> v.acc, st |-> v.st] :
                      v \in Calculate(node, scope, acc)}

----------------------------------------------------------------------------
(* ReversePolishNotationTranslator and LispStyleNotationTranslator         *)
(* (src/src/AST.h).  The two classes differ in the string Visit(BinOpNode) *)
(* builds; translator names the class.  Neither class has a Visit for a    *)
(* variable, a statement or a compound.                                    *)

Translators == {"ReversePolishNotationTranslator", "LispStyleNotationTranslator"}

\* the decimal digits of the natural number n
RECURSIVE DecimalDigits(_)
DecimalDigits(n) ==
    IF n < 10 THEN <<CharOrder[n + 1]>>
    ELSE DecimalDigits(n \div 10) \o <<CharOrder[(n % 10) + 1]>>

\* std::to_string(int)
to_string(n) == IF n < 0 THEN <<"-">> \o DecimalDigits(-n) ELSE DecimalDigits(n)

\* the character each case of the switch in Visit(BinOpNode) writes
OperatorChar == [Plus |-> "+", Minus |-> "-", Mul |-> "*", Div |-> "/"]

\* a Visit(BinOpNode) that writes the right operand first
TranslatedBinOpSwapped(class, op, left, right) ==
    IF class = "ReversePolishNotationTranslator"
    THEN right \o <<" ">> \o left \o <<" ", OperatorChar[op]>>
    ELSE <<"(", OperatorChar[op], " ">> \o right \o <<" ">> \o left \o <<")">>

\* the string Visit(BinOpNode) assigns to m_acc, left and right the strings
\* the two Translate calls returned
TranslatedBinOp(class, op, left, right) ==
    IF class = "ReversePolishNotationTranslator"
    THEN left \o <<" ">> \o right \o <<" ", OperatorChar[op]>>
    ELSE <<"(", OperatorChar[op], " ">> \o left \o <<" ">> \o right \o <<")">>

\* Translate(node): node.Accept(*this), then m_acc.  The result is the set
\* of outcomes [acc, st]: st is "ok" and acc the string returned, or st is
\* the exception that left the call and acc the m_acc it left.
RECURSIVE Translate(_, _, _)

TranslatorVisitLeafNumNode(num, acc) == {[acc |-> to_string(num.value), st |-> "ok"]}

\* a Visit(UnOpNode) that does nothing
TranslatorVisitUnOpNodeIgnores(unop, acc) == {[acc |-> acc, st |-> "ok"]}

TranslatorVisitUnOpNode(unop, acc) == {[acc |-> acc, st |-> "invalid_argument"]}

\* the operands of binop translated in the order ord, then the string built
TranslatorVisitBinOpNodeInOrder(class, binop, acc, ord) ==
    LET lr == ord = "LR"
        first == IF lr THEN binop.kids[1] ELSE binop.kids[2]
        second == IF lr THEN binop.kids[2] ELSE binop.kids[1]
    IN  UNION {
          IF f.st # "ok" THEN {f}
          ELSE {IF s.st # "ok" THEN s
                ELSE [acc |-> TranslatedBinOp(class, binop.op,
                                  IF lr THEN f.acc ELSE s.acc,
                                  IF lr THEN s.acc ELSE f.acc),
                      st |-> "ok"] :
                s \in Translate(class, second, f.acc)} :
          f \in Translate(class, first, acc)}

TranslatorVisitBinOpNode(class, binop, acc) ==
    IF binop.op \notin BinOpOperators
    THEN {[acc |-> acc, st |-> "logic_error"]}
    ELSE UNION {TranslatorVisitBinOpNodeInOrder(class, binop, acc, ord) : ord \in EvalOrders}

Translate(class, node, acc) ==
    CASE node.kind = "LeafNum" -> TranslatorVisitLeafNumNode(node, acc)
      [] node.kind = "UnOp" -> TranslatorVisitUnOpNode(node, acc)
      [] node.kind = "BinOp" -> TranslatorVisitBinOpNode(class, node, acc)

----------------------------------------------------------------------------
(* The trees handed to the evaluator.  They have the shapes the parser     *)
(* builds: the right side of an AssignNode is an expression, the children  *)
(* of a CompoundNode are statements, a CompoundNode has a child.           *)

\* identifiers: three spellings of one name, and another name
Names == {<<"n", "o">>, <<"N", "O">>, <<"N", "o">>, <<"y">>}

EvalExprs == {LeafNumNode(1), LeafNumNode(2)} \cup {LeafVarNode(n) : n \in Names}

LeafStmts == {LeafNopNode} \cup {AssignNode(n, e) : n \in Names, e \in EvalExprs}

\* the statements of the compound statements
CompoundStmts ==
    {LeafNopNode,
     AssignNode(<<"n", "o">>, LeafNumNode(1)),
     AssignNode(<<"y">>, LeafNumNode(2)),
     AssignNode(<<"y">>, LeafVarNode(<<"N", "O">>)),
     AssignNode(<<"N", "o">>, LeafVarNode(<<"y">>))}

SeqsUpTo(S, n) == UNION {[1..k -> S] : k \in 1..n}

FlatCompounds == {CompoundNode(kids) : kids \in SeqsUpTo(CompoundStmts, MaxChildren)}

\* a compound statement first or last among the children of another
NestedCompounds ==
    {CompoundNode(<<c>> \o rest) :
        c \in FlatCompounds, rest \in {<<>>} \cup SeqsUpTo(CompoundStmts, 1)}
    \cup {CompoundNode(<<s, c>>) : s \in CompoundStmts, c \in FlatCompounds}

EmptyScope == [k \in {} |-> 0]

----------------------------------------------------------------------------
(* The evaluator as a state machine.  status is "idle" between top-level   *)
(* visits, "running" inside Visit(CompoundNode), and after a visit that    *)
(* did not return the exception that left it or "trap".                    *)

\* the ExpressionCalculator as constructed
EvaluatorConstructed ==
    /\ m_scope = EmptyScope
    /\ m_acc = 0
    /\ status = "idle"
    /\ stack = <<>>
    /\ root = NoRoot

\* no Lexer or Parser was constructed
NoParser ==
    /\ mText = <<>>
    /\ mPos = 0
    /\ mCurrentToken = NoToken
    /\ tokens = <<>>
    /\ called = "none"
    /\ pstatus = "none"
    /\ ast = NoRoot
    /\ expected = "None"
    /\ what = NoWhat

\* no translator was constructed
NoTranslator ==
    /\ translator = "none"
    /\ t_acc = <<>>
    /\ tstatus = "none"
    /\ translation = <<>>
    /\ tree = NoRoot

Init == EvaluatorConstructed /\ NoParser /\ NoTranslator

\* the state after node.Accept(*this) went as outcome o says, for the visit
\* of a leaf directly (frames = <<>>) or as child i of the innermost loop
Settle(o, frames) ==
    /\ m_scope' = o.scope
    /\ m_acc' = o.acc
    /\ IF o.st = "ok"
       THEN /\ stack' = frames
            /\ status' = IF frames = <<>> THEN "idle" ELSE "running"
       ELSE /\ stack' = <<>>
            /\ status' = o.st

\* Interpreter::Interpret on a program whose tree is the compound statement
\* node: root->Accept(*this), on the evaluator as constructed
Interpret(node) ==
    /\ status = "idle"
    /\ root = NoRoot
    /\ node.kind = "Compound"
    /\ root' = node
    /\ stack' = <<[node |-> node, i |-> 0]>>
    /\ status' = "running"
    /\ UNCHANGED <<m_scope, m_acc>>
    /\ UNCHANGED parserVars
    /\ UNCHANGED translatorVars

\* node.Accept(*this) from outside, as in Calculate(node), of a statement or
\* an expression: the evaluator may have visited others before
Accept(node) ==
    /\ status = "idle"
    /\ node.kind # "Compound"
    /\ root' = node
    /\ \E o \in AcceptLeaf(node, m_scope, m_acc) : Settle(o, <<>>)
    /\ UNCHANGED parserVars
    /\ UNCHANGED translatorVars

\* Visit(CompoundNode): one turn of the loop, compound.GetChild(i).Accept(*this)
VisitCompoundNodeChild ==
    /\ status = "running"
    /\ LET top == stack[Len(stack)]
           child == GetChild(top.node, top.i)
       IN  /\ top.i < GetCount(top.node)
           /\ IF child.kind = "Compound"
              THEN /\ stack' = Append(stack, [node |-> child, i |-> 0])
                   /\ UNCHANGED <<m_scope, m_acc, status>>
              ELSE \E o \in AcceptLeaf(child, m_scope, m_acc) :
                       Settle(o, [stack EXCEPT ![Len(stack)].i = top.i + 1])
    /\ UNCHANGED root
    /\ UNCHANGED parserVars
    /\ UNCHANGED translatorVars

\* Visit(CompoundNode): the loop ends and the visit returns to its caller,
\* whose loop, if it is one, goes on with ++i
VisitCompoundNodeReturn ==
    /\ status = "running"
    /\ LET top == stack[Len(stack)]
           rest == SubSeq(stack, 1, Len(stack) - 1)
       IN  /\ top.i = GetCount(top.node)
           /\ stack' = IF rest = <<>> THEN rest
                       ELSE [rest EXCEPT ![Len(rest)].i = rest[Len(rest)].i + 1]
           /\ status' = IF rest = <<>> THEN "idle" ELSE "running"
    /\ UNCHANGED <<m_scope, m_acc, root>>
    /\ UNCHANGED parserVars
    /\ UNCHANGED translatorVars

InterpretProgram == \E node \in FlatCompounds \cup NestedCompounds : Interpret(node)

AcceptNode == \E node \in LeafStmts \cup EvalExprs : Accept(node)

Next ==
    \/ InterpretProgram
    \/ AcceptNode
    \/ VisitCompoundNodeChild
    \/ VisitCompoundNodeReturn

Spec == Init /\ [][Next]_vars

----------------------------------------------------------------------------
(* The evaluator on operands it was given: the variables no and y hold any *)
(* two ints, assigned last, and one statement or expression is visited.    *)

VarNo == LeafVarNode(<<"n", "o">>)
VarY == LeafVarNode(<<"y">>)
VarUnbound == LeafVarNode(<<"u">>)

UnaryExprs ==
    {UnOpNode(VarNo, op) : op \in UnOpOperators}
    \cup {UnOpNode(UnOpNode(VarNo, op1), op2) : op1, op2 \in UnOpOperators}

BinaryExprs ==
    {BinOpNode(VarNo, VarY, op) : op \in BinOpOperators}
    \cup {BinOpNode(BinOpNode(VarNo, VarY, op1), VarNo, op2) : op1, op2 \in BinOpOperators}
    \cup {BinOpNode(VarNo, BinOpNode(VarNo, VarY, op1), op2) : op1, op2 \in BinOpOperators}
    \cup {BinOpNode(VarUnbound, VarY, op) : op \in BinOpOperators}
    \cup {BinOpNode(VarNo, VarUnbound, op) : op \in BinOpOperators}

CalcExprs == UnaryExprs \cup BinaryExprs

CalcRoots ==
    CalcExprs \cup {AssignNode(n, e) : n \in {<<"z">>, <<"N", "O">>}, e \in CalcExprs}

\* the state after no := a; y := b, visited as two statements
InitCalc ==
    \E a, b \in IntRange :
        /\ m_scope = [k \in {<<"n", "o">>, <<"y">>} |-> IF k = <<"y">> THEN b ELSE a]
        /\ m_acc = b
        /\ status = "idle"
        /\ stack = <<>>
        /\ root = AssignNode(<<"y">>, LeafNumNode(b))
        /\ NoParser
        /\ NoTranslator

\* the operands are assigned and nothing was visited since
OperandsAssigned == root.kind = "Assign" /\ root.kids[1].kind = "LeafNum"

AcceptCalcRoot == OperandsAssigned /\ \E node \in CalcRoots : Accept(node)

NextCalc == AcceptCalcRoot

SpecCalc == InitCalc /\ [][NextCalc]_vars

----------------------------------------------------------------------------
(* The parser as a state machine: a Parser is constructed on a text and    *)
(* one of its parsing methods is called.                                   *)

\* the words of the texts, and the text of words with a space between them
wA == <<"a">>
wB == <<"b">>
wC == <<"c">>
w2 == <<"2">>
wReal == <<"1", ".", "5">>
wPlus == <<"+">>
wMinus == <<"-">>
wMul == <<"*">>
wDiv == <<"d", "i", "v">>
wSlash == <<"/">>
wLeft == <<"(">>
wRight == <<")">>
wSemi == <<";">>
wAssign == <<":", "=">>
wBegin == <<"b", "e", "g", "i", "n">>
wEnd == <<"E", "N", "D">>
wBad == <<"$">>

RECURSIVE Join(_)
Join(words) ==
    IF words = <<>> THEN <<>>
    ELSE IF Len(words) = 1 THEN words[1]
    ELSE words[1] \o <<" ">> \o Join(Tail(words))

\* any words of an expression, in any order
RawWords == {wA, w2, wReal, wPlus, wMinus, wMul, wDiv, wSlash, wLeft, wRight, wBad}

RawTexts == {Join(ws) : ws \in SeqsUpTo(RawWords, MaxRawWords)}

\* expressions: operands with a binary operator between each two, the
\* operands named a, b, c, a, ... from left to right
OperandNames == <<wA, wB, wC>>

Operands(n) ==
    LET x == OperandNames[(n % Len(OperandNames)) + 1]
    IN  {<<x>>, <<wMinus, x>>, <<wLeft, x, wPlus, w2, wRight>>}

Operators == {wPlus, wMinus, wMul, wDiv, wSlash}

\* the expressions of n operators
RECURSIVE Chains(_)
Chains(n) ==
    IF n = 0 THEN Operands(0)
    ELSE {c \o <<op>> \o x : c \in Chains(n - 1), op \in Operators, x \in Operands(n)}

ExprTexts == {Join(ws) : ws \in UNION {Chains(n) : n \in 0..MaxOps}}

\* statement lists: statements, some of them empty, with a semicolon
\* between each two
Statements ==
    {<<>>,
     <<w2>>,
     <<wA, wAssign, w2>>,
     <<wB, wAssign, wMinus, wA>>,
     <<wBegin, wEnd>>,
     <<wBegin, wA, wAssign, w2, wEnd>>,
     <<wBegin, wA, wAssign, w2, wSemi, wSemi, wB, wAssign, wA, wEnd>>}

RECURSIVE Lists(_)
Lists(n) ==
    IF n = 0 THEN Statements
    ELSE {l \o <<wSemi>> \o x : l \in Lists(n - 1), x \in Statements}

ListTexts == {Join(ws) : ws \in UNION {Lists(n) : n \in 0..MaxSemis}}

Texts == RawTexts \cup ExprTexts \cup ListTexts

\* Lexer(text) and Parser(lexer): the constructor of the parser reads the
\* first token
Parser(text) ==
    LET a == Advance(text, 0)
    IN  /\ mText = text
        /\ mPos = a.pos
        /\ mCurrentToken = a.tok
        /\ tokens = <<>>
        /\ called = "Parser"
        /\ pstatus = IF a.st = "ok" THEN "ready" ELSE a.st
        /\ ast = NoRoot
        /\ expected = "None"
        /\ what = WhatOf(a)

InitParse == EvaluatorConstructed /\ NoTranslator /\ \E text \in Texts : Parser(text)

\* where the parser stands
Here == [pos |-> mPos, tok |-> mCurrentToken]

\* assert(mCurrentToken.type == TokenType::Identifier) where it is false: the
\* build with assertions aborts; the build without them reads the value of
\* an empty optional, which may trap, and otherwise goes on to
\* EatAndAdvance(TokenType::Identifier), which throws
AssertOutcomes(r) ==
    IF r.st # "assert" THEN {r}
    ELSE {r,
          [r EXCEPT !.st = "trap"],
          ThrewRuntimeError(r, <<"can't parse as ", TokenTypeToString("Identifier")>>)}

\* a parsing method, called on the parser as constructed, ended as one of
\* the outcomes of r says
Call(method, result) ==
    \E r \in AssertOutcomes(result) :
    /\ pstatus = "ready"
    /\ called' = method
    /\ mPos' = r.pos
    /\ mCurrentToken' = r.tok
    /\ pstatus' = IF r.st = "ok" THEN "returned" ELSE r.st
    /\ ast' = r.node
    /\ what' = WhatOf(r)
    /\ UNCHANGED <<mText, tokens, expected>>
    /\ UNCHANGED evalVars
    /\ UNCHANGED translatorVars

CallParseAsFactor == Call("ParseAsFactor", Invoke("ParseAsFactor", mText, Here))

CallParseAsTerm == Call("ParseAsTerm", Invoke("ParseAsTerm", mText, Here))

CallParseAsExpr == Call("ParseAsExpr", Invoke("ParseAsExpr", mText, Here))

CallParseAsStatement == Call("ParseAsStatement", Invoke("ParseAsStatement", mText, Here))

CallParseAsStatementList == Call("ParseAsStatementList", Invoke("ParseAsStatementList", mText, Here))

CallParseAsCompound == Call("ParseAsCompound", Invoke("ParseAsCompound", mText, Here))

NextParse ==
    \/ CallParseAsFactor
    \/ CallParseAsTerm
    \/ CallParseAsExpr
    \/ CallParseAsStatement
    \/ CallParseAsStatementList
    \/ CallParseAsCompound

SpecParse == InitParse /\ [][NextParse]_vars

\* the parser on a text or the evaluator on its operands
InitParseCalc == InitParse \/ InitCalc

NextParseCalc == NextParse \/ NextCalc

SpecParseCalc == InitParseCalc /\ [][NextParseCalc]_vars

\* programs: a header or none, declarations or none, a compound statement
\* and what follows it
wProgram == <<"P", "R", "O", "G", "R", "A", "M">>
wVar == <<"V", "A", "R">>
wInteger == <<"I", "N", "T", "E", "G", "E", "R">>
wRealType == <<"r", "e", "a", "l">>
wColon == <<":">>
wComma == <<",">>
wDot == <<".">>

Headers == {<<>>, <<wProgram, wA, wSemi>>, <<wProgram, wSemi>>, <<wProgram, wA>>}

\* VAR and after it one declaration with its semicolon or more
DeclarationsWritten ==
    {<<wVar, wA, wColon, wInteger, wSemi>>,
     <<wVar, wA, wComma, wB, wColon, wRealType, wSemi, wC, wColon, wInteger, wSemi>>}

\* VAR and after it no declaration, or one that is not well formed
DeclarationsMiswritten ==
    {<<wVar>>,
     <<wVar, wA, wColon, wInteger>>,
     <<wVar, wA, wColon, wB, wSemi>>,
     <<wVar, wA, wComma, wColon, wInteger, wSemi>>,
     <<wVar, wColon, wInteger, wSemi>>}

Compounds ==
    {<<wBegin, wEnd>>,
     <<wBegin, wA, wAssign, w2, wEnd>>,
     <<wBegin, wA, wAssign, w2, wSemi, wB, wAssign, wA, wPlus, wReal, wEnd>>,
     <<wA, wAssign, w2>>}

Endings == {<<wDot>>, <<>>, <<wDot, wA>>, <<wSemi>>}

ProgramTexts ==
    {Join(h \o d \o c \o e) :
        h \in Headers,
        d \in {<<>>} \cup DeclarationsWritten \cup DeclarationsMiswritten,
        c \in Compounds,
        e \in Endings}

InitProgram ==
    EvaluatorConstructed /\ NoTranslator /\ \E text \in ProgramTexts : Parser(text)

CallParseAsTypeNode == Call("ParseAsTypeNode", Invoke("ParseAsTypeNode", mText, Here))

CallParseAsVariablesDeclaration ==
    Call("ParseAsVariablesDeclaration", Invoke("ParseAsVariablesDeclaration", mText, Here))

CallParseAsDeclarations == Call("ParseAsDeclarations", Invoke("ParseAsDeclarations", mText, Here))

CallParseAsBlock == Call("ParseAsBlock", Invoke("ParseAsBlock", mText, Here))

CallParseAsProgram == Call("ParseAsProgram", Invoke("ParseAsProgram", mText, Here))

NextProgram ==
    \/ CallParseAsTypeNode
    \/ CallParseAsVariablesDeclaration
    \/ CallParseAsDeclarations
    \/ CallParseAsBlock
    \/ CallParseAsProgram

SpecProgram == InitProgram /\ [][NextProgram]_vars

\* kinds EatAndAdvance is called with besides the kind of the lookahead
MismatchedKinds == {"IntegerDiv", "Semicolon"}

\* EatAndAdvance(kind), called on the parser as constructed or after a call
\* of it that returned
CallEatAndAdvance ==
    \E kind \in {mCurrentToken.type} \cup MismatchedKinds :
        LET r == EatAndAdvance(mText, Here, kind)
        IN  /\ pstatus = "ready"
            /\ called' = "EatAndAdvance"
            /\ expected' = kind
            /\ mPos' = r.pos
            /\ mCurrentToken' = r.tok
            /\ pstatus' = IF r.st = "ok" THEN "ready" ELSE r.st
            /\ what' = WhatOf(r)
            /\ UNCHANGED <<mText, tokens, ast>>
            /\ UNCHANGED evalVars
            /\ UNCHANGED translatorVars

\* tokens are eaten one by one, then a parsing method may be called
NextEat == CallEatAndAdvance \/ NextParse

\* a Parser constructed on a text of any words
InitEat == EvaluatorConstructed /\ NoTranslator /\ \E text \in RawTexts : Parser(text)

SpecEat == InitEat /\ [][NextEat]_vars

----------------------------------------------------------------------------
(* The lexer as a state machine: a Lexer is constructed on a text and      *)
(* Advance is called over and over, as Tokenize calls it, and on after the *)
(* end of the text.                                                        *)

\* the pieces of the texts, which follow one another with nothing between
LexWords ==
    {<<"2">>, <<".">>, <<" ">>, <<"\n">>, <<"$">>, <<"_">>, <<"a">>,
     <<"e", "N", "d">>, <<"d", "i", "v">>, <<"{">>, <<"}">>, <<":">>, <<"=">>}

RECURSIVE Concat(_)
Concat(words) == IF words = <<>> THEN <<>> ELSE Head(words) \o Concat(Tail(words))

LexTexts == {<<>>} \cup {Concat(ws) : ws \in SeqsUpTo(LexWords, MaxRawWords)}

\* Lexer(text)
Lexer(text) ==
    /\ mText = text
    /\ mPos = 0
    /\ mCurrentToken = NoToken
    /\ tokens = <<>>
    /\ called = "Lexer"
    /\ pstatus = "ready"
    /\ ast = NoRoot
    /\ expected = "None"
    /\ what = NoWhat

InitLex == EvaluatorConstructed /\ NoTranslator /\ \E text \in LexTexts : Lexer(text)

\* the calls that returned EndOfFile
AdvancesAtEnd == Cardinality({i \in 1..Len(tokens) : tokens[i].type = "EndOfFile"})

\* lexer->Advance(), the token kept by the caller
CallAdvance ==
    /\ pstatus = "ready"
    /\ AdvancesAtEnd < MaxAdvancesAtEnd
    /\ LET a == Advance(mText, mPos)
       IN  /\ called' = "Advance"
           /\ mPos' = a.pos
           /\ tokens' = IF a.st = "ok" THEN Append(tokens, a.tok) ELSE tokens
           /\ pstatus' = IF a.st = "ok" THEN "ready" ELSE a.st
           /\ what' = WhatOf(a)
    /\ UNCHANGED <<mText, mCurrentToken, ast, expected>>
    /\ UNCHANGED evalVars
    /\ UNCHANGED translatorVars

NextLex == CallAdvance

SpecLex == InitLex /\ [][NextLex]_vars

\* A text is read to its end: by a lexer whose Advance is called until it
\* returns EndOfFile, as Tokenize calls it, or by a parser whose
\* ParseAsProgram is called, as main calls it.  A call of Advance that is due
\* is made.
InitTerminate == EvaluatorConstructed /\ NoParser /\ NoTranslator

\* the programs, and the texts of a few pieces that a lexer is given
TerminateTexts ==
    ProgramTexts \cup {<<>>} \cup {Concat(ws) : ws \in SeqsUpTo(LexWords, MaxTerminateWords)}

\* Lexer(text), or Lexer(text) and then Parser(lexer), whose constructor
\* reads the first token
Construct ==
    /\ called = "none"
    /\ \E text \in TerminateTexts, class \in {"Lexer", "Parser"} :
           LET a == Advance(text, 0)
               parser == class = "Parser"
           IN  /\ mText' = text
               /\ mPos' = IF parser THEN a.pos ELSE 0
               /\ mCurrentToken' = IF parser THEN a.tok ELSE NoToken
               /\ called' = class
               /\ pstatus' = IF parser /\ a.st # "ok" THEN a.st ELSE "ready"
               /\ what' = IF parser THEN WhatOf(a) ELSE NoWhat
    /\ UNCHANGED <<tokens, ast, expected>>
    /\ UNCHANGED evalVars
    /\ UNCHANGED translatorVars

TokenizeAdvances == called \in {"Lexer", "Advance"} /\ CallAdvance

MainParsesProgram == called = "Parser" /\ CallParseAsProgram

NextTerminate == Construct \/ TokenizeAdvances \/ MainParsesProgram

SpecTerminate == InitTerminate /\ [][NextTerminate]_vars /\ WF_vars(TokenizeAdvances)

----------------------------------------------------------------------------
(* The lexer of the earlier revision (src/Lexer.cpp), which has no comments, *)
(* no real numbers, no colon and no comma, and its Advance called on a     *)
(* Lexer as Tokenize calls it.  A helper whose assertions fail yields       *)
(* "assert" and, as ndebug, what the build without assertions goes on to   *)
(* return.                                                                 *)

EarlierRESERVED_KEYWORDS ==
    (<<"b", "e", "g", "i", "n">> :> "Begin")
    @@ (<<"e", "n", "d">> :> "End")
    @@ (<<"d", "i", "v">> :> "Div")

\* Lexer::Lookahead(ch) with mPos = pos
Lookahead(text, pos, ch) == pos + 1 < Len(text) /\ text[pos + 2] = ch

\* the assertions at the entry of ReadAsInt
ReadAsIntAssertions(text, pos) == pos < Len(text) /\ isdigit(text[pos + 1])

\* the assertions at the entry of ReadAsKeywordOrIdentifier
EarlierReadAsKeywordOrIdentifierAssertions(text, pos) ==
    pos < Len(text) /\ isalpha(text[pos + 1])

\* assert(...) at the entry of a helper that returns read when it goes on
Asserting(holds, pos, read) ==
    IF holds THEN read
    ELSE [st |-> "assert", pos |-> pos, tok |-> NoToken, ndebug |-> read]

ReadAsInt(text, pos) ==
    LET stop == ScanWhile(Digits, text, pos)
    IN  Asserting(ReadAsIntAssertions(text, pos), pos,
            [st |-> "ok", pos |-> stop, tok |-> TokenWithValue("Int", Chars(text, pos, stop))])

EarlierReadAsKeywordOrIdentifier(text, pos) ==
    LET stop == ScanWhile(WordChars, text, pos)
        chars == Chars(text, pos, stop)
        it == to_lower_copy(chars)
    IN  Asserting(EarlierReadAsKeywordOrIdentifierAssertions(text, pos), pos,
            IF it \in DOMAIN EarlierRESERVED_KEYWORDS
            THEN [st |-> "ok", pos |-> stop, tok |-> Token(EarlierRESERVED_KEYWORDS[it])]
            ELSE [st |-> "ok", pos |-> stop, tok |-> TokenWithValue("Identifier", chars)])

\* the tokens of one character
EarlierPunctuation ==
    [c \in {"+", "-", "*", "(", ")", ";", "."} |->
        CASE c = "+" -> "Plus"
          [] c = "-" -> "Minus"
          [] c = "*" -> "Mul"
          [] c = "(" -> "LeftParen"
          [] c = ")" -> "RightParen"
          [] c = ";" -> "Semicolon"
          [] c = "." -> "Dot"]

\* the branch Advance takes from mPos = pos and the mPos it takes it at
RECURSIVE EarlierDispatch(_, _)
EarlierDispatch(text, pos) ==
    IF pos >= Len(text) THEN [to |-> "EndOfFile", pos |-> pos]
    ELSE LET c == text[pos + 1]
         IN  IF isspace(c) THEN EarlierDispatch(text, SkipWhitespaces(text, pos))
             ELSE IF isdigit(c) THEN [to |-> "ReadAsInt", pos |-> pos]
             ELSE IF isalpha(c) \/ c = "_" THEN [to |-> "ReadAsKeywordOrIdentifier", pos |-> pos]
             ELSE IF c \in DOMAIN EarlierPunctuation THEN [to |-> "Punctuation", pos |-> pos]
             ELSE IF c = ":" /\ Lookahead(text, pos, "=") THEN [to |-> "Assign", pos |-> pos]
             ELSE [to |-> "throw", pos |-> pos]

EarlierAdvance(text, pos) ==
    LET d == EarlierDispatch(text, pos)
    IN  CASE d.to = "EndOfFile" -> [st |-> "ok", pos |-> d.pos, tok |-> Token("EndOfFile")]
          [] d.to = "ReadAsInt" -> ReadAsInt(text, d.pos)
          [] d.to = "ReadAsKeywordOrIdentifier" -> EarlierReadAsKeywordOrIdentifier(text, d.pos)
          [] d.to = "Punctuation" ->
                [st |-> "ok", pos |-> d.pos + 1, tok |-> Token(EarlierPunctuation[text[d.pos + 1]])]
          [] d.to = "Assign" -> [st |-> "ok", pos |-> d.pos + 2, tok |-> Token("Assign")]
          [] d.to = "throw" ->
                [st |-> "invalid_argument", pos |-> d.pos, tok |-> NoToken,
                 what |-> <<"can't parse character at pos ", d.pos, text[d.pos + 1]>>]

\* a failed assertion aborts in the build with assertions and is not
\* evaluated in the build without them
EarlierAssertOutcomes(r) ==
    IF r.st # "assert" THEN {r}
    ELSE {[st |-> "assert", pos |-> r.pos, tok |-> r.tok], r.ndebug}

InitEarlierLex == EvaluatorConstructed /\ NoTranslator /\ \E text \in LexTexts : Lexer(text)

\* lexer->Advance(), the token kept by the caller
CallEarlierAdvance ==
    /\ pstatus = "ready"
    /\ AdvancesAtEnd < MaxAdvancesAtEnd
    /\ \E a \in EarlierAssertOutcomes(EarlierAdvance(mText, mPos)) :
           /\ called' = "Advance"
           /\ mPos' = a.pos
           /\ tokens' = IF a.st = "ok" THEN Append(tokens, a.tok) ELSE tokens
           /\ pstatus' = IF a.st = "ok" THEN "ready" ELSE a.st
           /\ what' = WhatOf(a)
    /\ UNCHANGED <<mText, mCurrentToken, ast, expected>>
    /\ UNCHANGED evalVars
    /\ UNCHANGED translatorVars

NextEarlierLex == CallEarlierAdvance

SpecEarlierLex == InitEarlierLex /\ [][NextEarlierLex]_vars

----------------------------------------------------------------------------
(* A translator as a state machine: a translator of either class is        *)
(* constructed and Translate is called on a tree of numbers and operators. *)

\* the trees of at most n operators above a number, the numbers from values
RECURSIVE TreesOfDepth(_, _)
TreesOfDepth(n, values) ==
    IF n = 0 THEN {LeafNumNode(v) : v \in values}
    ELSE LET below == TreesOfDepth(n - 1, values)
         IN  TreesOfDepth(0, values)
             \cup {BinOpNode(l, r, op) : l, r \in below, op \in BinOpOperators}
             \cup {UnOpNode(e, op) : e \in below, op \in UnOpOperators}

\* the trees translated: those of depth two, and each of them as the right
\* operand of 2 + and as the left operand of / -12
TranslatedTrees ==
    LET below == TreesOfDepth(2, 3..MaxLiteral)
    IN  below
        \cup {BinOpNode(LeafNumNode(2), t, "Plus") : t \in below}
        \cup {BinOpNode(t, LeafNumNode(-12), "Div") : t \in below}

TranslatorConstructed ==
    /\ translator \in Translators
    /\ t_acc = <<>>
    /\ tstatus = "ready"
    /\ translation = <<>>
    /\ tree = NoRoot

InitTranslate == EvaluatorConstructed /\ NoParser /\ TranslatorConstructed

\* Translate(node) on the translator as constructed
CallTranslate ==
    /\ tstatus = "ready"
    /\ \E node \in TranslatedTrees :
           \E o \in Translate(translator, node, t_acc) :
               /\ tree' = node
               /\ t_acc' = o.acc
               /\ tstatus' = IF o.st = "ok" THEN "returned" ELSE o.st
               /\ translation' = IF o.st = "ok" THEN o.acc ELSE <<>>
    /\ UNCHANGED translator
    /\ UNCHANGED evalVars
    /\ UNCHANGED parserVars

NextTranslate == CallTranslate

SpecTranslate == InitTranslate /\ [][NextTranslate]_vars

----------------------------------------------------------------------------
(* Properties of the lexer *)

\* C14: the lexer takes a . after digits into the number only when a digit
\* follows the . : no RealConstant ends with the . , and of the text 2. the
\* first token is the IntegerConstant 2 and the second a Dot.
C14_DotNeedsDigit ==
    /\ \A i \in 1..Len(tokens) :
           tokens[i].type = "RealConstant"
               => tokens[i].value[Len(tokens[i].value)] \in Digits
    /\ (mText = <<"2", ".">> /\ Len(tokens) >= 2)
           => /\ tokens[1] = TokenWithValue("IntegerConstant", <<"2">>)
              /\ tokens[2] = Token("Dot")

\* C15: after a call of Advance that returned EndOfFile, each further call
\* returns EndOfFile and leaves mPos as it was.
C15_EndOfFileRepeats ==
    [][(tokens # <<>> /\ tokens[Len(tokens)].type = "EndOfFile" /\ called' = "Advance")
       => /\ pstatus' = "ready"
          /\ tokens' = Append(tokens, Token("EndOfFile"))
          /\ mPos' = mPos]_vars

\* of the text a, followed by a space, Advance returned the identifier and
\* then EndOfFile three times
C15_Witness ==
    /\ mText = <<"a", " ">>
    /\ tokens = <<TokenWithValue("Identifier", <<"a">>),
                  Token("EndOfFile"), Token("EndOfFile"), Token("EndOfFile")>>
    /\ mPos = 2
    /\ pstatus = "ready"

C23_HelperAssertionsHold ==
    [][called' = "Advance" =>
           LET d == EarlierDispatch(mText, mPos)
           IN  /\ pstatus' # "assert"
               /\ d.to = "ReadAsInt" => ReadAsIntAssertions(mText, d.pos)
               /\ d.to = "ReadAsKeywordOrIdentifier" =>
                      EarlierReadAsKeywordOrIdentifierAssertions(mText, d.pos)]_vars

----------------------------------------------------------------------------
(* Properties of the parser *)

\* the call of method returned
Parsed(method) == called = method /\ pstatus = "returned"

\* what the lexer makes of the text, token after token
Stream == Advances(mText, 0)

\* the tokens the call has eaten
Consumed ==
    LET stream == Stream
        current == CHOOSE i \in 1..Len(stream) :
                       stream[i].pos = mPos /\ stream[i].tok = mCurrentToken
    IN  [i \in 1..(current - 1) |-> stream[i].tok]

\* The grammar of expressions, as a relation between tokens T and a tree t:
\*   expr   : expr (Plus | Minus) term | term
\*   term   : term (Mul | IntegerDiv | FloatDiv) factor | factor
\*   factor : (Plus | Minus) factor | constant | variable | ( expr )
RECURSIVE IsFactor(_, _), IsTerm(_, _), IsExpr(_, _)

IsFactor(T, t) ==
    \/ /\ Len(T) = 1
       /\ T[1].type = "Identifier"
       /\ t = LeafVarNode(T[1].value)
    \/ /\ Len(T) = 1
       /\ T[1].type = "IntegerConstant"
       /\ t = LeafNumNode(DecimalValue(T[1].value))
    \/ /\ Len(T) = 1
       /\ T[1].type = "RealConstant"
       /\ t.kind = "LeafNum"
       /\ t.kids = <<>>
    \/ /\ Len(T) >= 2
       /\ T[1].type \in {"Plus", "Minus"}
       /\ t.kind = "UnOp"
       /\ t.op = T[1].type
       /\ IsFactor(Tail(T), t.kids[1])
    \/ /\ Len(T) >= 3
       /\ T[1].type = "LeftParen"
       /\ T[Len(T)].type = "RightParen"
       /\ IsExpr(SubSeq(T, 2, Len(T) - 1), t)

IsTerm(T, t) ==
    \/ IsFactor(T, t)
    \/ /\ t.kind = "BinOp"
       /\ t.op \in {"Mul", "IntegerDiv", "FloatDiv"}
       /\ \E k \in 2..(Len(T) - 1) :
              /\ T[k].type = t.op
              /\ IsFactor(SubSeq(T, k + 1, Len(T)), t.kids[2])
              /\ IsTerm(SubSeq(T, 1, k - 1), t.kids[1])

IsExpr(T, t) ==
    \/ IsTerm(T, t)
    \/ /\ t.kind = "BinOp"
       /\ t.op \in {"Plus", "Minus"}
       /\ \E k \in 2..(Len(T) - 1) :
              /\ T[k].type = t.op
              /\ IsTerm(SubSeq(T, k + 1, Len(T)), t.kids[2])
              /\ IsExpr(SubSeq(T, 1, k - 1), t.kids[1])

VarA == LeafVarNode(<<"a">>)
VarB == LeafVarNode(<<"b">>)
VarC == LeafVarNode(<<"c">>)

\* the text of words is parsed by method into the tree t
ParsesTo(method, words, t) ==
    (Parsed(method) /\ mText = Join(words)) => ast = t

\* C6: the tree ParseAsExpr (ParseAsTerm) returns is the tree of the tokens it
\* ate by the grammar in which + and - are left-associative, *, div and / are
\* left-associative and bind tighter, and an expression in parentheses is a
\* factor: a - b - c is (a - b) - c, a + b * c is a + (b * c), and
\* ( a + 2 ) * c has the sum as its left operand.
C6_PrecedenceAndAssociativity ==
    /\ Parsed("ParseAsExpr") => IsExpr(Consumed, ast)
    /\ Parsed("ParseAsTerm") => IsTerm(Consumed, ast)
    /\ ParsesTo("ParseAsExpr", <<wA, wMinus, wB, wMinus, wC>>,
                BinOpNode(BinOpNode(VarA, VarB, "Minus"), VarC, "Minus"))
    /\ ParsesTo("ParseAsExpr", <<wA, wPlus, wB, wMul, wC>>,
                BinOpNode(VarA, BinOpNode(VarB, VarC, "Mul"), "Plus"))
    /\ ParsesTo("ParseAsExpr", <<wA, wDiv, wB, wSlash, wC>>,
                BinOpNode(BinOpNode(VarA, VarB, "IntegerDiv"), VarC, "FloatDiv"))
    /\ ParsesTo("ParseAsExpr", <<wLeft, wA, wPlus, w2, wRight, wMul, wB>>,
                BinOpNode(BinOpNode(VarA, LeafNumNode(2), "Plus"), VarB, "Mul"))

\* a - b * ( c + 2 ) was parsed
C6_Witness ==
    /\ Parsed("ParseAsExpr")
    /\ mText = Join(<<wA, wMinus, wB, wMul, wLeft, wC, wPlus, w2, wRight>>)
    /\ mCurrentToken.type = "EndOfFile"
    /\ ast = BinOpNode(VarA, BinOpNode(VarB, BinOpNode(VarC, LeafNumNode(2), "Plus"), "Mul"),
                       "Minus")

\* the tokens of T from the i-th on start with a run of signs, and t has a
\* UnOpNode of each, outermost first, around the tree of what follows
RECURSIVE IsSignRun(_, _, _)
IsSignRun(T, i, t) ==
    IF i <= Len(T) /\ T[i].type \in {"Plus", "Minus"}
    THEN /\ t.kind = "UnOp"
         /\ t.op = T[i].type
         /\ IsSignRun(T, i + 1, t.kids[1])
    ELSE /\ i <= Len(T)
         /\ T[i].type = "Identifier" => t = LeafVarNode(T[i].value)
         /\ T[i].type = "IntegerConstant" => t.kind = "LeafNum"
         /\ T[i].type \notin {"LeftParen"} => t.kind \in {"LeafVar", "LeafNum"}

DoubleNegation == UnOpNode(UnOpNode(VarNo, "Minus"), "Minus")

\* C7: the factor ParseAsFactor returns has one UnOpNode for each sign the
\* text starts with, nested in their order, and a - - b is the difference of
\* a and the negated b; the evaluator gives -(-e) the value of e.
C7_UnaryChain ==
    /\ Parsed("ParseAsFactor") => IsSignRun(Consumed, 1, ast)
    /\ ParsesTo("ParseAsExpr", <<wA, wMinus, wMinus, wB>>,
                BinOpNode(VarA, UnOpNode(VarB, "Minus"), "Minus"))
    /\ (root \in {DoubleNegation, AssignNode(<<"z">>, DoubleNegation)})
           => (status = "idle" /\ m_acc = m_scope[<<"n", "o">>])

\* a - - b was parsed
C7_Witness ==
    /\ Parsed("ParseAsExpr")
    /\ mText = Join(<<wA, wMinus, wMinus, wB>>)
    /\ mCurrentToken.type = "EndOfFile"
    /\ ast.kind = "BinOp"
    /\ ast.kids[2] = UnOpNode(VarB, "Minus")

\* the places in T, from the i-th on, of the semicolons outside every
\* begin ... end, depth the begins open at i
RECURSIVE TopSemicolons(_, _, _)
TopSemicolons(T, i, depth) ==
    IF i > Len(T) THEN <<>>
    ELSE IF T[i].type = "Begin" THEN TopSemicolons(T, i + 1, depth + 1)
    ELSE IF T[i].type = "End" THEN TopSemicolons(T, i + 1, depth - 1)
    ELSE IF T[i].type = "Semicolon" /\ depth = 0
         THEN <<i>> \o TopSemicolons(T, i + 1, depth)
    ELSE TopSemicolons(T, i + 1, depth)

\* C8: the list ParseAsStatementList returns has one child more than the
\* semicolons the call ate between statements, in the order of the text: the
\* child of a slot that starts with begin is a compound, of one that starts
\* with an identifier the assignment to it, and of any other slot a
\* LeafNopNode for which no token was eaten.
C8_StatementListChildren ==
    Parsed("ParseAsStatementList") =>
        LET stream == Stream
            T == Consumed
            semis == TopSemicolons(T, 1, 0)
        IN  /\ ast.kind = "Compound"
            /\ GetCount(ast) = Len(semis) + 1
            /\ \A i \in 1..GetCount(ast) :
                   LET from == IF i = 1 THEN 1 ELSE semis[i - 1] + 1
                       to == IF i <= Len(semis) THEN semis[i] - 1 ELSE Len(T)
                       first == stream[from].tok
                       child == GetChild(ast, i - 1)
                   IN  IF first.type = "Begin"
                       THEN child.kind = "Compound" /\ to > from
                       ELSE IF first.type = "Identifier"
                       THEN child.kind = "Assign" /\ child.name = first.value /\ to > from
                       ELSE child = LeafNopNode /\ to = from - 1

\* a := 2 ; ; b := - a was parsed
C8_Witness ==
    /\ Parsed("ParseAsStatementList")
    /\ mText = Join(<<wA, wAssign, w2, wSemi, wSemi, wB, wAssign, wMinus, wA>>)
    /\ mCurrentToken.type = "EndOfFile"
    /\ ast = CompoundNode(<<AssignNode(<<"a">>, LeafNumNode(2)),
                            LeafNopNode,
                            AssignNode(<<"b">>, UnOpNode(VarA, "Minus"))>>)

\* C11: after construction the lookahead changes only as EatAndAdvance
\* changes it.  EatAndAdvance(kind) with the lookahead of that kind makes the
\* token that follows it in the text the lookahead (one call of the lexer,
\* whose exception for a character that starts no token passes through);
\* with a lookahead of another kind it throws the error "can't parse as"
\* with the name of kind and leaves the lookahead and the lexer's position
\* as they were.  A parsing method leaves as lookahead a token the lexer
\* yields at or after the one it found.
C11_EatAndAdvanceSoleConsumer ==
    [][LET stream == Stream
           i == CHOOSE i \in 1..Len(stream) :
                    stream[i].pos = mPos /\ stream[i].tok = mCurrentToken
           next == IF mCurrentToken.type = "EndOfFile" THEN i ELSE i + 1
       IN  /\ \E k \in 1..Len(stream) :
                  stream[k].pos = mPos /\ stream[k].tok = mCurrentToken
           /\ called' = "EatAndAdvance" =>
                  IF expected' = mCurrentToken.type
                  THEN IF next <= Len(stream)
                       THEN /\ pstatus' = "ready"
                            /\ mCurrentToken' = stream[next].tok
                            /\ mPos' = stream[next].pos
                       ELSE /\ pstatus' = "invalid_argument"
                            /\ mCurrentToken' = mCurrentToken
                  ELSE /\ pstatus' = "runtime_error"
                       /\ what' = <<"can't parse as ", TokenTypeToString(expected')>>
                       /\ mCurrentToken' = mCurrentToken
                       /\ mPos' = mPos
           /\ called' # "EatAndAdvance" =>
                  \E j \in i..Len(stream) :
                      /\ mCurrentToken' = stream[j].tok
                      /\ pstatus' # "invalid_argument" => mPos' = stream[j].pos]_vars

\* of the text 2 a the constant was eaten; then EatAndAdvance(IntegerDiv) found
\* the identifier and threw, naming Div
C11_Witness ==
    /\ called = "EatAndAdvance"
    /\ mText = Join(<<w2, wA>>)
    /\ expected = "IntegerDiv"
    /\ pstatus = "runtime_error"
    /\ what = <<"can't parse as ", "Div">>
    /\ mCurrentToken = TokenWithValue("Identifier", <<"a">>)
    /\ mPos = 3

----------------------------------------------------------------------------
(* Properties of the parser of programs *)

\* the compound statements among Compounds
CompoundsWritten == {c \in Compounds : c[1] = wBegin}

\* the programs of the grammar [ 'program' IDENT ';' ] block '.' that start
\* with header
Programs(header) ==
    {Join(header \o d \o c \o <<wDot>>) :
        d \in {<<>>} \cup DeclarationsWritten, c \in CompoundsWritten}

\* C18: ParseAsProgram accepts a program whether or not the header
\* 'program' IDENT ';' precedes the block, and in both cases what it accepts
\* has the block followed by '.' and the end of the input.
C18_HeaderOptional ==
    called = "ParseAsProgram" =>
        /\ mText \in Programs(<<wProgram, wA, wSemi>>) \cup Programs(<<>>)
               => pstatus = "returned"
        /\ pstatus = "returned" =>
               /\ mCurrentToken.type = "EndOfFile"
               /\ Consumed # <<>>
               /\ Consumed[Len(Consumed)].type = "Dot"

\* C19: when the lookahead is Var, ParseAsDeclarations takes at least one
\* declaration followed by ';' and throws the runtime_error of a syntax error
\* where Begin follows Var at once; when the lookahead is not Var it returns
\* the empty list of declarations and has consumed no token.
C19_VarRequiresDeclaration ==
    called = "ParseAsDeclarations" =>
        LET first == Stream[1].tok.type
        IN  /\ (first = "Var" /\ Stream[2].tok.type = "Begin") => pstatus = "runtime_error"
            /\ (first = "Var" /\ pstatus = "returned") =>
                   /\ ast.kids # <<>>
                   /\ Consumed[Len(Consumed)].type = "Semicolon"
            /\ first # "Var" =>
                   /\ pstatus = "returned"
                   /\ ast = Vector(<<>>)
                   /\ Consumed = <<>>

----------------------------------------------------------------------------
(* Properties of termination *)

\* the place among the tokens of stream of p, a result that is one of them
IndexOf(stream, p) ==
    CHOOSE i \in 1..Len(stream) : stream[i].pos = p.pos /\ stream[i].tok = p.tok

\* the parser with lookahead the token a of the text
AtToken(a) == [pos |-> a.pos, tok |-> a.tok]

\* the methods that call themselves through others
RecursiveMethods == {"ParseAsFactor", "ParseAsCompound"}

\* the loops of the parser, each with what it has built before an iteration
ParserLoops ==
    {<<"ParseAsTermLoop", NoRoot>>,
     <<"ParseAsExprLoop", NoRoot>>,
     <<"ParseAsStatementListLoop", CompoundNode(<<>>)>>,
     <<"ParseAsDeclarationsLoop", Vector(<<>>)>>,
     <<"ParseAsVariablesDeclarationLoop", Vector(<<>>)>>}

\* the nodes of a tree, the declarations of a block among them
RECURSIVE Size(_)
Size(node) ==
    LET RECURSIVE Sum(_, _)
        Sum(nodes, i) == IF i > Len(nodes) THEN 0 ELSE Size(nodes[i]) + Sum(nodes, i + 1)
    IN  1 + Sum(node.kids, 1)
          + (IF node.kind = "Block" THEN Sum(node.declarations, 1) ELSE 0)
          + (IF node.kind = "VarDecl" THEN 1 ELSE 0)

\* a lexer was constructed for Tokenize
Tokenizing == called \in {"Lexer", "Advance"}

\* the lexer has returned EndOfFile or has thrown
TokenizeEnded ==
    \/ pstatus # "ready"
    \/ tokens # <<>> /\ tokens[Len(tokens)].type = "EndOfFile"

\* mPos never decreases and never exceeds the length of the text, and an
\* Advance that returns a token other than EndOfFile increases it
PositionAdvances ==
    /\ mPos <= mPos'
    /\ mPos' <= Len(mText')
    /\ (called' = "Advance" /\ Len(tokens') > Len(tokens)
           /\ tokens'[Len(tokens')].type # "EndOfFile") => mPos < mPos'

\* ParseAsProgram ends with a ProgramNode or with an exception and no tree
ProgramEnds ==
    called' = "ParseAsProgram" =>
        /\ pstatus' # "ready"
        /\ IF pstatus' = "returned" THEN ast'.kind = "Program" ELSE ast' = NoRoot

\* wherever in the text they are called, ParseAsFactor and ParseAsCompound
\* return past a token they have eaten, and a loop that returns has eaten a
\* token or has run no iteration
ParserConsumes ==
    called = "Parser" =>
        LET stream == Stream
        IN  \A i \in 1..Len(stream) :
                /\ \A method \in RecursiveMethods :
                       LET r == Invoke(method, mText, AtToken(stream[i]))
                       IN  r.st = "ok" => IndexOf(stream, r) > i
                /\ \A loop \in ParserLoops :
                       LET start == Returns(AtToken(stream[i]), loop[2])
                           r == Invoke(loop[1], mText, start)
                       IN  r.st = "ok" => (r = start \/ IndexOf(stream, r) > i)

\* C22: ParseAsProgram ends on every text, with a tree or with an error, and
\* the lexer called over and over comes to EndOfFile or to an error; the
\* position of the lexer never decreases and never exceeds the length of the
\* text; an Advance that returns a token other than EndOfFile increases it;
\* every loop iteration of the parser and every recursive call of
\* ParseAsFactor or ParseAsCompound consumes a token, so that the tree
\* ParseAsProgram returns has no more nodes than it has consumed tokens.
C22_ParseAsProgramTerminates ==
    /\ [][PositionAdvances /\ ProgramEnds]_vars
    /\ [](mPos <= Len(mText))
    /\ []ParserConsumes
    /\ [](Parsed("ParseAsProgram") => Size(ast) <= Len(Consumed))
    /\ Tokenizing ~> TokenizeEnded

\* the program with two declarations and two statements was parsed to its
\* end: the position is the length of the text
C22_Witness ==
    /\ Parsed("ParseAsProgram")
    /\ mText = Join(<<wProgram, wA, wSemi,
                      wVar, wA, wComma, wB, wColon, wRealType, wSemi, wC, wColon, wInteger, wSemi,
                      wBegin, wA, wAssign, w2, wSemi, wB, wAssign, wA, wPlus, wReal, wEnd,
                      wDot>>)
    /\ mPos = Len(mText)
    /\ Size(ast) = 16

----------------------------------------------------------------------------
(* Properties of the translators *)

\* Translate was called and has ended
Translated == tstatus \notin {"none", "ready"}

RECURSIVE OnlyNumbersAndBinOps(_)
OnlyNumbersAndBinOps(t) ==
    \/ t.kind = "LeafNum"
    \/ /\ t.kind = "BinOp"
       /\ OnlyNumbersAndBinOps(t.kids[1])
       /\ OnlyNumbersAndBinOps(t.kids[2])

RECURSIVE ContainsUnOp(_)
ContainsUnOp(t) ==
    \/ t.kind = "UnOp"
    \/ \E i \in 1..Len(t.kids) : ContainsUnOp(t.kids[i])

\* the operator a character stands for
OperatorOfChar == [c \in {"+", "-", "*", "/"} |->
                      CHOOSE op \in BinOpOperators : OperatorChar[op] = c]

\* word is a decimal number with or without a sign
IsNumeral(word) ==
    LET digits == IF word # <<>> /\ word[1] = "-" THEN Tail(word) ELSE word
    IN  digits # <<>> /\ \A i \in 1..Len(digits) : digits[i] \in Digits

NumeralValue(word) ==
    IF word[1] = "-" THEN -DecimalValue(Tail(word)) ELSE DecimalValue(word)

\* the words of str, which a single space separates from one another
RECURSIVE Words(_)
Words(str) ==
    IF \A i \in 1..Len(str) : str[i] # " " THEN <<str>>
    ELSE LET sp == CHOOSE i \in 1..Len(str) :
                       str[i] = " " /\ \A j \in 1..(i - 1) : str[j] # " "
         IN  <<SubSeq(str, 1, sp - 1)>> \o Words(SubSeq(str, sp + 1, Len(str)))

\* the trees a stack machine holds after the words of a postfix notation:
\* a numeral pushes its number, an operator replaces the two topmost trees,
\* the left one below the right one, by their BinOpNode
RECURSIVE ReadPostfix(_, _)
ReadPostfix(words, trees) ==
    IF words = <<>> THEN trees
    ELSE LET w == Head(words)
             n == Len(trees)
         IN  IF IsNumeral(w)
             THEN ReadPostfix(Tail(words), Append(trees, LeafNumNode(NumeralValue(w))))
             ELSE IF Len(w) = 1 /\ w[1] \in DOMAIN OperatorOfChar /\ n >= 2
             THEN ReadPostfix(Tail(words),
                      Append(SubSeq(trees, 1, n - 2),
                             BinOpNode(trees[n - 1], trees[n], OperatorOfChar[w[1]])))
             ELSE <<>>

\* the tree the prefix notation at str[i] writes and where it ends: a
\* numeral, or ( operator, space, left, space, right ); next is 0 where
\* str holds no such notation
RECURSIVE ReadPrefix(_, _)
ReadPrefix(str, i) ==
    LET none == [node |-> NoRoot, next |-> 0]
        Is(k, c) == k >= 1 /\ k <= Len(str) /\ str[k] = c
    IN  IF Is(i, "(")
        THEN IF i + 2 <= Len(str) /\ str[i + 1] \in DOMAIN OperatorOfChar /\ Is(i + 2, " ")
             THEN LET l == ReadPrefix(str, i + 3)
                  IN  IF l.next = 0 \/ ~Is(l.next, " ") THEN none
                      ELSE LET r == ReadPrefix(str, l.next + 1)
                           IN  IF r.next = 0 \/ ~Is(r.next, ")") THEN none
                               ELSE [node |-> BinOpNode(l.node, r.node,
                                                        OperatorOfChar[str[i + 1]]),
                                     next |-> r.next + 1]
             ELSE none
        ELSE LET stop == ScanWhile(Digits \cup {"-"}, str, i - 1)
                 word == SubSeq(str, i, stop)
             IN  IF i >= 1 /\ IsNumeral(word)
                 THEN [node |-> LeafNumNode(NumeralValue(word)), next |-> stop + 1]
                 ELSE none

\* the tree of 2 + 3 * 4
TwoPlusThreeTimesFour ==
    BinOpNode(LeafNumNode(2), BinOpNode(LeafNumNode(3), LeafNumNode(4), "Mul"), "Plus")

\* C12: for a tree of numbers and binary operators only, Translate returns,
\* from the postfix translator, left, right and the operator with one space
\* between them, and from the prefix translator ( operator left right ), in
\* each operand likewise: read back as that notation, left operand before
\* right, the string returned gives the tree.  The tree of 2 + 3 * 4 gives
\* "2 3 4 * +" and "(+ 2 (* 3 4))".
C12_TranslatorsRender ==
    (Translated /\ OnlyNumbersAndBinOps(tree)) =>
        /\ tstatus = "returned"
        /\ IF translator = "ReversePolishNotationTranslator"
           THEN ReadPostfix(Words(translation), <<>>) = <<tree>>
           ELSE ReadPrefix(translation, 1) = [node |-> tree, next |-> Len(translation) + 1]
        /\ tree = TwoPlusThreeTimesFour =>
               translation =
                   IF translator = "ReversePolishNotationTranslator"
                   THEN <<"2", " ", "3", " ", "4", " ", "*", " ", "+">>
                   ELSE <<"(", "+", " ", "2", " ", "(", "*", " ", "3", " ", "4", ")", ")">>

\* the postfix translator has translated ( 4 - 3 ) / -12
C12_Witness ==
    /\ translator = "ReversePolishNotationTranslator"
    /\ tstatus = "returned"
    /\ tree = BinOpNode(BinOpNode(LeafNumNode(4), LeafNumNode(3), "Minus"),
                        LeafNumNode(-12), "Div")
    /\ translation = <<"4", " ", "3", " ", "-", " ", "-", "1", "2", " ", "/">>

\* C13: Translate of a tree that holds a UnOpNode, at any depth, ends with
\* the exception of Visit(UnOpNode) in either translator and returns no
\* string.
C13_UnaryOperatorFails ==
    (Translated /\ ContainsUnOp(tree)) =>
        (tstatus = "invalid_argument" /\ translation = <<>>)

\* the prefix translator was given 2 + ( 3 * - 4 ): the exception, no string
\* returned, and the left operand's translation, if made, left in m_acc
C13_Witness ==
    /\ translator = "LispStyleNotationTranslator"
    /\ tree = BinOpNode(LeafNumNode(2),
                        BinOpNode(LeafNumNode(3), UnOpNode(LeafNumNode(4), "Minus"), "Mul"),
                        "Plus")
    /\ tstatus = "invalid_argument"
    /\ translation = <<>>
    /\ t_acc = <<"3">>

----------------------------------------------------------------------------
(* Properties of the evaluator *)

\* the statement or expression this step visits, NoRoot when it visits none
VisitedLeaf ==
    IF status = "idle"
    THEN IF root'.kind = "Compound" THEN NoRoot ELSE root'
    ELSE IF status = "running" /\ stack # <<>>
         THEN LET top == stack[Len(stack)]
              IN  IF top.i < GetCount(top.node)
                     /\ GetChild(top.node, top.i).kind # "Compound"
                  THEN GetChild(top.node, top.i)
                  ELSE NoRoot
         ELSE NoRoot

Returned == {"idle", "running"}

SameName(a, b) == to_lower_copy(a) = to_lower_copy(b)

\* what a reference to name reads: a value, or "unbound"
ReadVar(scope, name) ==
    LET o == CHOOSE o \in VisitLeafVarNode(LeafVarNode(name), scope, 0) : TRUE
    IN  IF o.st = "ok" THEN [bound |-> TRUE, value |-> o.acc]
        ELSE [bound |-> FALSE, value |-> 0]

\* the value of a number or of a variable reference
LeafValue(scope, e) ==
    IF e.kind = "LeafNum" THEN e.value ELSE ReadVar(scope, e.name).value

NoCaseDuplicates(scope) ==
    \A k1, k2 \in DOMAIN scope : SameName(k1, k2) => k1 = k2

\* C1: no two keys of the Environment are equal but for case, and a
\* variable reference under any spelling of a name reads the value of the
\* latest assignment made under any spelling of that name: a step that
\* assigns makes every spelling read the assigned value, and any other
\* step leaves what a spelling reads as it was.
C1_CaseInsensitiveSlot ==
    [][/\ NoCaseDuplicates(m_scope')
       /\ \A s \in Names :
            IF /\ VisitedLeaf.kind = "Assign"
               /\ SameName(VisitedLeaf.name, s)
               /\ status' \in Returned
            THEN ReadVar(m_scope', s) =
                     [bound |-> TRUE, value |-> LeafValue(m_scope, VisitedLeaf.kids[1])]
            ELSE ReadVar(m_scope', s) = ReadVar(m_scope, s)]_vars

\* number was assigned, then NUMBER: one entry, under the first spelling, with
\* the second value
C1_Witness ==
    /\ root = AssignNode(<<"N", "O">>, LeafNumNode(2))
    /\ status = "idle"
    /\ DOMAIN m_scope = {<<"n", "o">>}
    /\ m_scope[<<"n", "o">>] = 2

\* the expression a visit evaluates: the node itself or the right side
VisitedExpr(node) == IF node.kind = "Assign" THEN node.kids[1] ELSE node

\* C2: the visit of a variable reference that no key of the Environment
\* matches fails with the unbound-variable error (std::runtime_error),
\* yields no value, and leaves the accumulator and the Environment as they
\* were.
C2_UnboundLookupFails ==
    [][LET e == VisitedExpr(VisitedLeaf)
       IN  (e.kind = "LeafVar" /\ \A k \in DOMAIN m_scope : ~SameName(k, e.name))
           => (status' = "runtime_error" /\ m_acc' = m_acc /\ m_scope' = m_scope)]_vars

\* y := 1 was visited, then y := no with no unassigned: the error, and the
\* accumulator still 1
C2_Witness ==
    /\ root = AssignNode(<<"y">>, LeafVarNode(<<"n", "o">>))
    /\ status = "runtime_error"
    /\ m_acc = 1
    /\ DOMAIN m_scope = {<<"y">>}
    /\ m_scope[<<"y">>] = 1

\* C9: the visit of a NoOp node leaves the Environment and the accumulator
\* as they were and returns, in every state the evaluator reaches.
C9_NopHasNoEffect ==
    [][VisitedLeaf.kind = "LeafNop"
       => (m_scope' = m_scope /\ m_acc' = m_acc /\ status' \in Returned)]_vars

\* a NoOp was visited with variables assigned: the accumulator is not 0
C9_Witness ==
    /\ root = LeafNopNode
    /\ status = "idle"
    /\ m_acc = 2
    /\ m_scope # EmptyScope

\* C17: the Environment only grows.  A step that changes it is the visit of
\* an AssignNode that returns; such a visit adds the one key it names, as
\* written, when no key has that name in any spelling, and else changes the
\* value of the one key that has it; every key stays, spelled as it is, and
\* every other key keeps its value.
C17_EnvironmentOnlyGrows ==
    [][LET assign == VisitedLeaf
           assigned == assign.kind = "Assign" /\ status' \in Returned
           same == {k \in DOMAIN m_scope : SameName(k, assign.name)}
       IN  /\ DOMAIN m_scope \subseteq DOMAIN m_scope'
           /\ m_scope' # m_scope => assigned
           /\ assigned =>
                  /\ Cardinality(same) <= 1
                  /\ DOMAIN m_scope' = IF same = {} THEN DOMAIN m_scope \cup {assign.name}
                                       ELSE DOMAIN m_scope
                  /\ \A k \in DOMAIN m_scope : k \notin same => m_scope'[k] = m_scope[k]
                  /\ \A k \in DOMAIN m_scope' :
                         (k \in same \/ k \notin DOMAIN m_scope) => m_scope'[k] = m_acc']_vars

\* y and no were assigned, then No := y: the keys are still no and y
C17_Witness ==
    /\ root = AssignNode(<<"N", "o">>, LeafVarNode(<<"y">>))
    /\ status = "idle"
    /\ DOMAIN m_scope = {<<"n", "o">>, <<"y">>}
    /\ m_scope[<<"n", "o">>] = 2
    /\ m_scope[<<"y">>] = 2

\* the number the expression e stands for where none of its parts fails
RECURSIVE Denotes(_, _)
Denotes(e, scope) ==
    CASE e.kind = "LeafNum" -> e.value
      [] e.kind = "LeafVar" -> ReadVar(scope, e.name).value
      [] e.kind = "UnOp" -> ApplyUnOp(e.op, Denotes(e.kids[1], scope))
      [] e.kind = "BinOp" ->
            LET l == Denotes(e.kids[1], scope)
                r == Denotes(e.kids[2], scope)
            IN  CASE e.op = "Plus" -> Wrap(l + r)
                  [] e.op = "Minus" -> Wrap(l - r)
                  [] e.op = "Mul" -> Wrap(l * r)
                  [] e.op = "Div" -> IF r = 0 THEN 0 ELSE Wrap(Quotient(l, r))

\* e refers to a variable that no key of scope matches
RECURSIVE ReadsUnbound(_, _)
ReadsUnbound(e, scope) ==
    CASE e.kind = "LeafVar" -> ~ReadVar(scope, e.name).bound
      [] e.kind \in {"UnOp", "BinOp"} ->
            \E i \in 1..Len(e.kids) : ReadsUnbound(e.kids[i], scope)
      [] OTHER -> FALSE

\* e has a division whose divisor stands for zero
RECURSIVE DividesByZero(_, _)
DividesByZero(e, scope) ==
    CASE e.kind = "BinOp" ->
            \/ DividesByZero(e.kids[1], scope)
            \/ DividesByZero(e.kids[2], scope)
            \/ e.op = "Div" /\ Denotes(e.kids[2], scope) = 0
      [] e.kind = "UnOp" -> DividesByZero(e.kids[1], scope)
      [] OTHER -> FALSE

\* C20: the visit of an AssignNode whose right-hand expression fails, by a
\* reference to an unbound variable or by a division by zero, leaves the
\* Environment as it was before the visit: no entry is made for the target
\* and an entry it has keeps its value.
C20_FailedAssignmentKeepsEnvironment ==
    [][LET assign == VisitedLeaf
       IN  (/\ assign.kind = "Assign"
            /\ \/ ReadsUnbound(assign.kids[1], m_scope)
               \/ DividesByZero(assign.kids[1], m_scope))
           => m_scope' = m_scope]_vars

\* the values the expression e can have, each the operator of e applied to
\* a value of its left subtree and a value of its right subtree
RECURSIVE ValuesOf(_, _)
ValuesOf(e, scope) ==
    CASE e.kind = "LeafNum" -> {e.value}
      [] e.kind = "LeafVar" ->
            IF ReadVar(scope, e.name).bound THEN {ReadVar(scope, e.name).value} ELSE {}
      [] e.kind = "UnOp" -> {ApplyUnOp(e.op, v) : v \in ValuesOf(e.kids[1], scope)}
      [] e.kind = "BinOp" ->
            UNION {{o.acc : o \in {x \in ApplyBinOp(e.op, l, r, 0) : x.st = "ok"}} :
                      l \in ValuesOf(e.kids[1], scope), r \in ValuesOf(e.kids[2], scope)}

\* the values the visit of binop leaves in the accumulator when the operand
\* Calculate calls run in the order ord
ValuesInOrder(binop, scope, acc, ord) ==
    {o.acc : o \in {x \in VisitBinOpNodeInOrder(binop, scope, acc, ord) : x.st = "ok"}}

\* C21: the value the visit of a BinOpNode computes is its operator applied
\* to the value of the left subtree and the value of the right subtree,
\* whatever the accumulator held before, in either order of the two operand
\* Calculate calls and for nested operands.
C21_BinOpValueOfOperands ==
    [][LET e == VisitedExpr(VisitedLeaf)
       IN  e.kind = "BinOp" =>
               /\ \A ord \in EvalOrders :
                      ValuesInOrder(e, m_scope, m_acc, ord) = ValuesOf(e, m_scope)
               /\ status' \in Returned => m_acc' \in ValuesOf(e, m_scope)]_vars

\* no = 2 and y = 3, then no * (no - y) was visited: the accumulator is -2
C21_Witness ==
    /\ root = BinOpNode(VarNo, BinOpNode(VarNo, VarY, "Minus"), "Mul")
    /\ status = "idle"
    /\ m_scope = (<<"n", "o">> :> 2) @@ (<<"y">> :> 3)
    /\ m_acc = -2

\* the statements of a tree, depth first and left to right
RECURSIVE PreOrderLeaves(_)
PreOrderLeaves(node) ==
    IF node.kind # "Compound" THEN <<node>>
    ELSE LET RECURSIVE Cat(_)
             Cat(i) == IF i > Len(node.kids) THEN <<>>
                       ELSE PreOrderLeaves(node.kids[i]) \o Cat(i + 1)
         IN  Cat(1)

\* the evaluator state after the statements of leaves, visited one after
\* the other from s until one fails
RECURSIVE RunLeaves(_, _)
RunLeaves(leaves, s) ==
    IF leaves = <<>> \/ s.st # "ok" THEN s
    ELSE RunLeaves(Tail(leaves),
                   CHOOSE o \in AcceptLeaf(Head(leaves), s.scope, s.acc) : TRUE)

\* C10: the evaluator visits the statements of a program depth first and in
\* source order: at every moment the Environment and the accumulator are
\* those after a prefix of the program's statements in that order, the whole
\* of them when the visit has returned, up to the failing one when it failed.
C10_DepthFirstInOrder ==
    root.kind = "Compound" =>
        LET leaves == PreOrderLeaves(root)
        IN  \E k \in 0..Len(leaves) :
                LET r == RunLeaves(SubSeq(leaves, 1, k),
                                   [scope |-> EmptyScope, acc |-> 0, st |-> "ok"])
                IN  /\ r.scope = m_scope
                    /\ r.acc = m_acc
                    /\ status = "idle" => (k = Len(leaves) /\ r.st = "ok")
                    /\ status = "running" => r.st = "ok"
                    /\ status \notin Returned => r.st = status

\* begin begin no := 1 end; y := NO end has returned: no = 1, y = 1
C10_Witness ==
    /\ root = CompoundNode(<<CompoundNode(<<AssignNode(<<"n", "o">>, LeafNumNode(1))>>),
                             AssignNode(<<"y">>, LeafVarNode(<<"N", "O">>))>>)
    /\ status = "idle"
    /\ m_scope = [k \in {<<"n", "o">>, <<"y">>} |-> 1]

----------------------------------------------------------------------------
(* Properties of the arithmetic, on the operands a (no) and b (y) *)

OperandA == m_scope[<<"n", "o">>]
OperandB == m_scope[<<"y">>]

\* root was visited and its expression is e; the operands are as assigned
Visited(e) ==
    /\ ~OperandsAssigned
    /\ root \in {e, AssignNode(<<"z">>, e)}

NoDivide == BinOpNode(VarNo, VarY, "Div")

\* an exception left the visit and reached the caller
Raised == {"runtime_error", "logic_error", "arithmetic_error"}

\* C3: the division no / y with y zero fails with an arithmetic error that
\* reaches the caller: it yields no number and stores no value.
C3_DivisionByZeroRaises ==
    (Visited(NoDivide) /\ OperandB = 0)
        => (status \in Raised /\ <<"z">> \notin DOMAIN m_scope)

\* q is a / b rounded toward zero
IsTruncatedQuotient(q, a, b) ==
    LET r == a - q * b
    IN  Abs(r) < Abs(b) /\ (r = 0 \/ (r < 0) = (a < 0))

\* C4: for all ints a and b with b # 0 the integer division
\* yields the quotient rounded toward zero.
C4_TruncatesForAllOperands ==
    (Visited(NoDivide) /\ OperandB # 0)
        => (status = "idle" /\ IsTruncatedQuotient(m_acc, OperandA, OperandB))

\* C5: the division of the source operator / yields the quotient that is
\* not truncated: the result times the divisor is the dividend.
C5_DivisionIsExact ==
    (Visited(NoDivide) /\ OperandB # 0 /\ ~(OperandA = IntMin /\ OperandB = -1))
        => (status = "idle" /\ m_acc * OperandB = OperandA)

====
